---- MODULE Spec2Model ----
(***************************************************************************)
(* Model of the stride server: the Resource implementations (DB, Redis and *)
(* their mocks), the resource lifecycle orchestrator (InitResources,       *)
(* CloseResources), App.Run, and the in-memory MockUserRepository.         *)
(*                                                                         *)
(* Error values are modelled by their message; the nil error is "nil".     *)
(* A composed message (string concatenation) is a sequence of its parts.   *)
(***************************************************************************)
EXTENDS Integers, Sequences, FiniteSets, TLC

VARIABLES
    \* ---- Resource objects (fields of DB, Redis, MockDB, MockRedis)
    client,        \* DB.client / Redis.client: "nil", "open" or "closed"
    connected,     \* MockDB.connected / MockRedis.connected
    life,          \* history: lifecycle state disconnected / connected / closed
    everOK,        \* history: some Connect on the resource has returned nil
    last,          \* history: the last call made on a resource and its result
    \* ---- Build choices
    variant,       \* InitResources/CloseResources: "concurrent" or "sequential"
    mainVariant,   \* main: "preinit" (InitResources in main) or "wire"
    \* ---- InitResources / CloseResources (the function being executed)
    fn,            \* "none", "InitResources" or "CloseResources"
    caller,        \* who called it: "main", "Run" or "harness"
    fpc,           \* position of the function body
    gpc,           \* position of the goroutine started for each resource
    gres,          \* the resourceInitResult each goroutine has built
    resultsChan,   \* the buffered results channel
    idx,           \* number of results received by the collection loop
    initErrors,    \* InitResources: the errors appended so far
    successCount,
    failureCount,
    initResult,    \* the error InitResources returned (<<>> is nil)
    connErr,       \* history: result of Connect in the current InitResources
    connCalls,     \* history: number of Connect calls per resource
    closeErr,      \* history: result of Close in the current CloseResources
    closeCalls,    \* history: number of Close calls per resource
    closeSeen,     \* history: resources whose Close outcome was examined
    \* ---- main and App.Run
    pc,            \* position of the main goroutine
    tracerProvider,\* App.tracerProvider is set
    serverPc,      \* position of the goroutine running ListenAndServe
    listening,     \* the HTTP server accepts requests
    serverErrors,  \* the serverErrors channel
    shutdown,      \* the shutdown (signal) channel holds a signal
    now,           \* seconds since the shutdown context was created
    runResult,     \* what Run returned / why the process exited
    \* ---- harness re-running InitResources with fixed Connect outcomes
    plan,
    invocation,
    firstResult,
    \* ---- MockUserRepository and its callers
    users,         \* MockUserRepository.users: id -> address of the stored User (0: absent)
    mutex,         \* MockUserRepository.mutex (sync.RWMutex)
    heap,          \* the User objects, by address
    cpc,           \* position of each calling goroutine
    cur,           \* the call each goroutine is making
    ret,           \* the last return of a repository method: who, what, error
    held,          \* the pointers each goroutine got from GetByID / List
    written,       \* history: per id, the fields last written by Create/Update
    \* ---- goroutines that each Create one user and then List
    creates,       \* per goroutine: the user it passed to Create and the result
    listed,        \* per goroutine: what its List returned
    \* ---- userService and the user handlers over the repository
    faulty,        \* the repository behind the service can fail (driver errors)
    svc,           \* per goroutine: the userService call it is in
    hnd,           \* per goroutine: the HTTP request its handler serves
    \* ---- userRepositoryImpl over the MongoDB collection "users"
    documents,     \* the documents of the collection, as their emails, in insertion order
    indexed,       \* the unique index on email exists
    creating,      \* per goroutine: the userRepositoryImpl.Create call it is in
    \* ---- time
    clock,         \* time.Now(), in seconds since the process started
    \* ---- BaseRepository over a MongoDB collection
    coll,          \* the documents of the collection
    base,          \* the last BaseRepository / userRepositoryImpl call and its result
    \* ---- httpclient.Client
    retryBackOff,  \* Client.retryBackOff, shared by the requests of the client
    requests       \* the calls of Client.Request in progress

resVars == <<client, connected, life, everOK, last>>

cfgVars == <<variant, mainVariant>>

orchVars == <<fn, caller, fpc, gpc, gres, resultsChan, idx, initErrors,
              successCount, failureCount, initResult>>

histVars == <<connErr, connCalls, closeErr, closeCalls, closeSeen>>

procVars == <<pc, tracerProvider, serverPc, listening, serverErrors, shutdown,
              now, runResult>>

harnessVars == <<plan, invocation, firstResult>>

repoVars == <<users, mutex, heap, cpc, cur, ret, held, written>>

testVars == <<creates, listed>>

svcVars == <<faulty, svc, hnd>>

collVars == <<coll, base>>

\* the variables of the callers of the repository
aboveVars == <<testVars, svcVars, collVars>>

mongoVars == <<documents, indexed, creating>>

timeVars == <<clock>>

httpVars == <<retryBackOff, requests>>

\* the variables of the components other than the resources and the process
nonAppVars == <<repoVars, aboveVars, mongoVars, timeVars, httpVars>>

appVars == <<cfgVars, orchVars, histVars, procVars, harnessVars, nonAppVars>>

\* the variables of the components other than the repository
nonRepoVars == <<resVars, cfgVars, orchVars, histVars, procVars, harnessVars,
                mongoVars, timeVars, httpVars>>

\* the variables of the components other than userRepositoryImpl
nonMongoVars == <<resVars, cfgVars, orchVars, histVars, procVars, harnessVars,
                 repoVars, aboveVars, timeVars, httpVars>>

vars == <<resVars, cfgVars, orchVars, histVars, procVars, harnessVars, repoVars,
         aboveVars, mongoVars, timeVars, httpVars>>

----------------------------------------------------------------------------
(* Resource implementations *)

NilErr == "nil"

ErrResourceNotConnected == "resource not connected"

RealImpls == {"DB", "Redis"}

MockImpls == {"MockDB", "MockRedis"}

Impls == RealImpls \cup MockImpls

\* Name() of each implementation
Name(r) ==
    CASE r = "DB"        -> "mongodb"
      [] r = "Redis"     -> "redis"
      [] r = "MockDB"    -> "mock-database"
      [] r = "MockRedis" -> "mock-redis"

\* The driver's ping on an existing client object (mongo.Client.Ping,
\* redis.Client.Ping): fails on a client that was disconnected, otherwise
\* succeeds iff the server answers (up).
DriverPing(c, up) ==
    IF c = "closed" THEN "client is disconnected"
    ELSE IF up THEN NilErr ELSE "server unreachable"

\* The ping error as each driver words it
MongoPing(c, up) ==
    IF DriverPing(c, up) = NilErr THEN NilErr ELSE "mongo: " \o DriverPing(c, up)

RedisDriverPing(c, up) ==
    IF DriverPing(c, up) = NilErr THEN NilErr ELSE "redis: " \o DriverPing(c, up)

\* The driver's close on an existing client object (mongo.Client.Disconnect,
\* redis.Client.Close): both drivers report an error when the client object was
\* closed before (ErrClientDisconnected, "redis: client is closed"); a first
\* close may fail (fails) or succeed.
DriverClose(c, fails) ==
    IF c = "closed" THEN "client is disconnected"
    ELSE IF fails THEN "close failed" ELSE NilErr

\* DB.Ping
DBPing(c, up) ==
    IF c = "nil" THEN "mongodb connection not established" ELSE MongoPing(c, up)

\* Redis.Ping
RedisPing(c, up) ==
    IF c = "nil" THEN "Redis connection not established" ELSE RedisDriverPing(c, up)

\* DB.Connect: mongo.Connect may fail (dial = FALSE), leaving the fields as
\* they were; otherwise the client is stored and verified with Ping.
DBConnect(c, dial, up) ==
    IF ~dial
    THEN [client |-> c, err |-> "failed to connect to mongodb"]
    ELSE [client |-> "open", err |-> DBPing("open", up)]

\* Redis.Connect: redis.NewClient never fails; the client is stored, then
\* verified with Ping.
RedisConnect(c, dial, up) ==
    [client |-> "open", err |-> RedisPing("open", up)]

\* DB.Close
DBClose(c, fails) ==
    IF c # "nil"
    THEN [client |-> "closed", err |-> DriverClose(c, fails)]
    ELSE [client |-> c, err |-> NilErr]

\* Redis.Close
RedisClose(c, fails) ==
    IF c # "nil"
    THEN [client |-> "closed", err |-> DriverClose(c, fails)]
    ELSE [client |-> c, err |-> NilErr]

\* MockDB.Connect / MockRedis.Connect
MockConnect(b) ==
    [connected |-> TRUE, err |-> NilErr]

\* MockDB.Close / MockRedis.Close
MockClose(b) ==
    [connected |-> FALSE, err |-> NilErr]

\* MockDB.Ping / MockRedis.Ping
MockPing(b) ==
    IF ~b THEN ErrResourceNotConnected ELSE NilErr

\* Dispatch on the implementation behind the Resource interface
RealConnect(r, c, dial, up) ==
    IF r = "DB" THEN DBConnect(c, dial, up) ELSE RedisConnect(c, dial, up)

RealClose(r, c, fails) ==
    IF r = "DB" THEN DBClose(c, fails) ELSE RedisClose(c, fails)

RealPing(r, c, up) ==
    IF r = "DB" THEN DBPing(c, up) ELSE RedisPing(c, up)

\* Lifecycle state after a Connect that returned err: a failed Connect
\* leaves a closed or connected resource as it was, and marks a resource that
\* was never touched as "attempted".
LifeAfterConnect(l, err) ==
    IF err = NilErr THEN "connected"
    ELSE IF l = "disconnected" THEN "attempted" ELSE l

ResInit ==
    /\ client = [r \in RealImpls |-> "nil"]
    /\ connected = [r \in MockImpls |-> FALSE]
    /\ life = [r \in Impls |-> "disconnected"]
    /\ everOK = [r \in Impls |-> FALSE]
    /\ last = [res |-> "none", op |-> "none", err |-> NilErr,
               lifeBefore |-> "disconnected", okBefore |-> FALSE]

Called(r, op, err) ==
    [res |-> r, op |-> op, err |-> err,
     lifeBefore |-> life[r], okBefore |-> everOK[r]]

\* Connect on a real resource, with the environment's answers dial and up
ApplyRealConnect(r, dial, up) ==
    LET o == RealConnect(r, client[r], dial, up) IN
    /\ client' = [client EXCEPT ![r] = o.client]
    /\ life' = [life EXCEPT ![r] = LifeAfterConnect(@, o.err)]
    /\ everOK' = [everOK EXCEPT ![r] = @ \/ o.err = NilErr]
    /\ last' = Called(r, "Connect", o.err)
    /\ UNCHANGED connected

\* Close on a real resource
ApplyRealClose(r, fails) ==
    LET o == RealClose(r, client[r], fails) IN
    /\ client' = [client EXCEPT ![r] = o.client]
    /\ life' = [life EXCEPT ![r] = "closed"]
    /\ last' = Called(r, "Close", o.err)
    /\ UNCHANGED <<connected, everOK>>

\* A caller invokes Connect on a real resource
CallRealConnect(r) ==
    /\ \E dial \in BOOLEAN, up \in BOOLEAN : ApplyRealConnect(r, dial, up)
    /\ UNCHANGED appVars

\* A caller invokes Close on a real resource
CallRealClose(r) ==
    /\ \E fails \in BOOLEAN : ApplyRealClose(r, fails)
    /\ UNCHANGED appVars

\* A caller invokes Ping on a real resource
CallRealPing(r) ==
    /\ \E up \in BOOLEAN : last' = Called(r, "Ping", RealPing(r, client[r], up))
    /\ UNCHANGED <<client, connected, life, everOK>>
    /\ UNCHANGED appVars

\* A caller invokes Connect on a mock resource
CallMockConnect(r) ==
    LET o == MockConnect(connected[r]) IN
    /\ connected' = [connected EXCEPT ![r] = o.connected]
    /\ life' = [life EXCEPT ![r] = LifeAfterConnect(@, o.err)]
    /\ everOK' = [everOK EXCEPT ![r] = @ \/ o.err = NilErr]
    /\ last' = Called(r, "Connect", o.err)
    /\ UNCHANGED client
    /\ UNCHANGED appVars

\* A caller invokes Close on a mock resource
CallMockClose(r) ==
    LET o == MockClose(connected[r]) IN
    /\ connected' = [connected EXCEPT ![r] = o.connected]
    /\ life' = [life EXCEPT ![r] = "closed"]
    /\ last' = Called(r, "Close", o.err)
    /\ UNCHANGED <<client, everOK>>
    /\ UNCHANGED appVars

\* A caller invokes Ping on a mock resource
CallMockPing(r) ==
    /\ last' = Called(r, "Ping", MockPing(connected[r]))
    /\ UNCHANGED <<client, connected, life, everOK>>
    /\ UNCHANGED appVars

----------------------------------------------------------------------------
(* MockUserRepository *)

MaxAddr == 4

Callers == {"g1", "g2"}

\* the goroutines that keep the pointers GetByID and List return and the
\* object they passed in; the others drop them when the call returns
Keeps == {"g1"}

IDs == {"id1", "id2"}

Names == {"Ann", "Ann2"}

Emails == {"ann@x.com"}

\* addresses of the User objects the repository allocates (userCopy)
RepoAddrs == 1..MaxAddr

\* the address of the object goroutine c owns and passes to Create/Update
\* (below the allocator's range)
OwnAddr(c) == IF c = "g1" THEN -1 ELSE -2

Addrs == {OwnAddr(c) : c \in Callers} \cup RepoAddrs

NoUser == [ID |-> "none", Name |-> "none", Email |-> "none",
           CreatedAt |-> 0, UpdatedAt |-> 0]

\* a domain.User whose timestamps were set at time t (as domain.NewUser does)
UserAt(id, name, email, t) ==
    [ID |-> id, Name |-> name, Email |-> email, CreatedAt |-> t, UpdatedAt |-> t]

ErrUserExists == "user already exists"

ErrUserNotFound == "user not found"

Reads == {"GetByID", "List"}

Mutations == {"Create", "Update", "Delete"}

NoCall == [op |-> "none", id |-> "none", ptr |-> 0]

NoRet == [by |-> "none", op |-> "none", id |-> "none", ptr |-> 0, err |-> NilErr]

RepoInit ==
    /\ users = [id \in IDs |-> 0]
    /\ mutex = [readers |-> 0, writer |-> FALSE]
    /\ heap = [a \in Addrs |-> NoUser]
    /\ cpc = [c \in Callers |-> "idle"]
    /\ cur = [c \in Callers |-> NoCall]
    /\ ret = NoRet
    /\ held = [c \in Callers |-> {}]
    /\ written = [id \in IDs |-> NoUser]

NoCreate == [user |-> NoUser, err |-> "none"]

NoList == [called |-> FALSE, after |-> FALSE, done |-> FALSE, n |-> 0, users |-> {}]

AboveInit ==
    /\ creates = [c \in Callers |-> NoCreate]
    /\ listed = [c \in Callers |-> NoList]

\* (mutant) every method takes the read lock
LockKindAlwaysShared(op) ==
    "R"

\* the lock each method takes: RLock in GetByID and List, Lock in Create,
\* Update and Delete
LockKind(op) ==
    IF op \in Reads THEN "R" ELSE "W"

\* sync.RWMutex: RLock waits while a writer holds the lock, Lock waits while
\* anyone holds it
CanAcquire(m, kind) ==
    IF kind = "R" THEN ~m.writer ELSE ~m.writer /\ m.readers = 0

Acquire(m, kind) ==
    IF kind = "R" THEN [m EXCEPT !.readers = @ + 1] ELSE [m EXCEPT !.writer = TRUE]

\* RUnlock / Unlock
Release(m, kind) ==
    IF kind = "R" THEN [m EXCEPT !.readers = @ - 1] ELSE [m EXCEPT !.writer = FALSE]

\* the stored pointers, as List collects them
StoredPtrs == {users[id] : id \in {i \in IDs : users[i] # 0}}

\* the addresses the map us or a goroutine (through hl) still points to
Referenced(us, hl) == {us[id] : id \in IDs} \cup UNION {hl[c] : c \in Callers}

\* the garbage collector: an allocated object nothing points to is gone
Collected(h, us, hl) ==
    [a \in Addrs |-> IF a \in RepoAddrs /\ a \notin Referenced(us, hl)
                     THEN NoUser ELSE h[a]]

\* the heap once goroutine c has returned from Create or Update
Dropped(c, h) ==
    IF c \in Keeps THEN h ELSE [h EXCEPT ![OwnAddr(c)] = NoUser]

FreeAddrs == RepoAddrs \ Referenced(users, held)

\* the address the allocator hands out next
NewAddr == CHOOSE a \in FreeAddrs : \A b \in FreeAddrs : a <= b

\* (mutant) the goroutine assigns to the ID of the User it got
CallerSetsHeldID(c, a, name, email) ==
    /\ cpc[c] = "idle"
    /\ a \in held[c]
    /\ heap' = [heap EXCEPT ![a].ID = CHOOSE id \in IDs : id # heap[a].ID]
    /\ UNCHANGED <<users, mutex, cpc, cur, ret, held, written>>
    /\ UNCHANGED nonRepoVars

\* a goroutine assigns to the fields of a User it got from GetByID or List
\* (as Handler.UpdateUser does with existingUser)
CallerSetsHeld(c, a, name, email) ==
    /\ cpc[c] = "idle"
    /\ a \in held[c]
    /\ heap' = [heap EXCEPT ![a].Name = name, ![a].Email = email]
    /\ heap'[a] # heap[a]
    /\ UNCHANGED <<users, mutex, cpc, cur, ret, held, written>>
    /\ UNCHANGED nonRepoVars

\* a goroutine assigns to the fields of the User object it owns and has
\* passed to Create or Update before
CallerSetsOwn(c, name, email) ==
    /\ cpc[c] = "idle"
    /\ heap[OwnAddr(c)] # NoUser
    /\ heap' = [heap EXCEPT ![OwnAddr(c)].Name = name, ![OwnAddr(c)].Email = email]
    /\ heap'[OwnAddr(c)] # heap[OwnAddr(c)]
    /\ UNCHANGED <<users, mutex, cpc, cur, ret, held, written>>
    /\ UNCHANGED nonRepoVars

\* r.mutex.RLock() / r.mutex.Lock() at the head of the method called as call
RepoLock(c, call) ==
    /\ cpc[c] = "idle"
    /\ CanAcquire(mutex, LockKind(call.op))
    /\ mutex' = Acquire(mutex, LockKind(call.op))
    /\ cur' = [cur EXCEPT ![c] = call]
    /\ cpc' = [cpc EXCEPT ![c] = "locked"]
    /\ ret' = NoRet

\* a goroutine calls GetByID(id), List(), or Delete(id) and gets the lock
CallByID(c, op, id) ==
    /\ op \in {"GetByID", "List", "Delete"}
    /\ op = "List" => id = "none"
    /\ op # "List" => id \in IDs
    /\ RepoLock(c, [op |-> op, id |-> id, ptr |-> 0])
    /\ UNCHANGED <<users, heap, held, written>>
    /\ UNCHANGED nonRepoVars

\* a goroutine fills in the User object it owns, calls Create(user) or
\* Update(user) with a pointer to it, and gets the lock
CallWithOwn(c, op, id, name, email) ==
    /\ op \in {"Create", "Update"}
    /\ RepoLock(c, [op |-> op, id |-> id, ptr |-> OwnAddr(c)])
    /\ heap' = [heap EXCEPT ![OwnAddr(c)] = UserAt(id, name, email, clock)]
    /\ UNCHANGED <<users, held, written>>
    /\ UNCHANGED nonRepoVars

\* a goroutine calls Create(user) or Update(user) with a pointer it got from
\* GetByID or List, and gets the lock
CallWithHeld(c, op, ptr) ==
    /\ op \in {"Create", "Update"}
    /\ ptr \in held[c]
    /\ RepoLock(c, [op |-> op, id |-> heap[ptr].ID, ptr |-> ptr])
    /\ UNCHANGED <<users, heap, held, written>>
    /\ UNCHANGED nonRepoVars

\* the method returns err: the deferred RUnlock / Unlock runs
RepoReturn(c, err) ==
    /\ mutex' = Release(mutex, LockKind(cur[c].op))
    /\ cpc' = [cpc EXCEPT ![c] = "idle"]
    /\ ret' = [by |-> c, op |-> cur[c].op, id |-> cur[c].id, ptr |-> cur[c].ptr,
                err |-> err]
    /\ cur' = [cur EXCEPT ![c] = NoCall]

\* (mutant) GetByID returns nil whatever the map holds
GetByIDResultNil(user) ==
    {}

\* the pointer GetByID returns for the map entry user (0: no entry, nil)
GetByIDResult(user) ==
    IF user = 0 THEN {} ELSE {user}

\* what goroutine c keeps of the pointers ptrs a read returned to it
Kept(c, ptrs) ==
    IF c \in Keeps THEN ptrs ELSE {}

\* GetByID: the body under the read lock
GetByID(c) ==
    /\ cpc[c] = "locked"
    /\ cur[c].op = "GetByID"
    /\ RepoReturn(c, NilErr)
    /\ held' = [held EXCEPT ![c] = Kept(c, GetByIDResult(users[cur[c].id]))]
    /\ heap' = Collected(heap, users, held')
    /\ UNCHANGED <<users, written>>
    /\ UNCHANGED nonRepoVars

\* List: the body under the read lock; of the pointers in the slice it
\* returns the caller keeps at most one (keep)
List(c) ==
    /\ cpc[c] = "locked"
    /\ cur[c].op = "List"
    /\ RepoReturn(c, NilErr)
    /\ \E keep \in Kept(c, StoredPtrs) \cup {0} :
          /\ keep = 0 => Kept(c, StoredPtrs) = {}
          /\ held' = [held EXCEPT ![c] = {keep} \ {0}]
    /\ heap' = Collected(heap, users, held')
    /\ UNCHANGED <<users, written>>
    /\ UNCHANGED nonRepoVars

\* (mutant) the map is replaced by one that holds the new user only
StoreCopyReplacesMap(c) ==
    LET user == heap[cur[c].ptr] IN
    /\ FreeAddrs # {}
    /\ users' = [id \in IDs |-> IF id = user.ID THEN NewAddr ELSE 0]
    /\ heap' = Dropped(c, Collected([heap EXCEPT ![NewAddr] = user], users', held))
    /\ written' = [written EXCEPT ![user.ID] = user]

\* (mutant) r.users[user.ID] = user: the caller's pointer is stored
StoreCopyKeepsPointer(c) ==
    LET user == heap[cur[c].ptr] IN
    /\ users' = [users EXCEPT ![user.ID] = cur[c].ptr]
    /\ heap' = Collected(heap, users', held)
    /\ written' = [written EXCEPT ![user.ID] = user]

\* userCopy := *user; r.users[user.ID] = &userCopy
StoreCopy(c) ==
    LET user == heap[cur[c].ptr] IN
    /\ FreeAddrs # {}
    /\ users' = [users EXCEPT ![user.ID] = NewAddr]
    /\ heap' = Dropped(c, Collected([heap EXCEPT ![NewAddr] = user], users', held))
    /\ written' = [written EXCEPT ![user.ID] = user]

\* (mutant) every ID counts as present
ExistsAlways(id) ==
    TRUE

\* _, exists := r.users[id]
Exists(id) ==
    users[id] # 0

\* Create: the body under the write lock
Create(c) ==
    /\ cpc[c] = "locked"
    /\ cur[c].op = "Create"
    /\ IF Exists(heap[cur[c].ptr].ID)
       THEN /\ RepoReturn(c, ErrUserExists)
            /\ heap' = Dropped(c, heap)
            /\ UNCHANGED <<users, written>>
       ELSE /\ StoreCopy(c)
            /\ RepoReturn(c, NilErr)
    /\ UNCHANGED held
    /\ UNCHANGED nonRepoVars

\* Update: the body under the write lock
Update(c) ==
    /\ cpc[c] = "locked"
    /\ cur[c].op = "Update"
    /\ IF ~Exists(heap[cur[c].ptr].ID)
       THEN /\ RepoReturn(c, ErrUserNotFound)
            /\ heap' = Dropped(c, heap)
            /\ UNCHANGED <<users, written>>
       ELSE /\ StoreCopy(c)
            /\ RepoReturn(c, NilErr)
    /\ UNCHANGED held
    /\ UNCHANGED nonRepoVars

\* (mutant) Delete reports success and leaves the entry in the map
DeleteKeepsEntry(c) ==
    /\ cpc[c] = "locked"
    /\ cur[c].op = "Delete"
    /\ RepoReturn(c, IF Exists(cur[c].id) THEN NilErr ELSE ErrUserNotFound)
    /\ UNCHANGED <<users, heap, written, held>>
    /\ UNCHANGED nonRepoVars

\* Delete: the body under the write lock
Delete(c) ==
    /\ cpc[c] = "locked"
    /\ cur[c].op = "Delete"
    /\ IF ~Exists(cur[c].id)
       THEN /\ RepoReturn(c, ErrUserNotFound)
            /\ UNCHANGED <<users, heap, written>>
       ELSE /\ users' = [users EXCEPT ![cur[c].id] = 0]
            /\ heap' = Collected(heap, users', held)
            /\ written' = [written EXCEPT ![cur[c].id] = NoUser]
            /\ RepoReturn(c, NilErr)
    /\ UNCHANGED held
    /\ UNCHANGED nonRepoVars

----------------------------------------------------------------------------
(* userService *)

\* service.ErrUserNotFound: an error value of its own, not the repository's
ServiceErrUserNotFound == "service: user not found"

ErrInvalidUser == "invalid user data"

\* an error the repository returns when its driver fails
ErrRepoFailure == "repository failure"

NoSvc == [op |-> "none", id |-> "none", ptr |-> 0, pc |-> "none", err |-> NilErr,
          lookup |-> "none", calls |-> <<>>]

NoRequest == [method |-> "none", id |-> "none", name |-> "none", email |-> "none",
              pc |-> "none", status |-> 0]

SvcInit ==
    /\ svc = [c \in Callers |-> NoSvc]
    /\ hnd = [c \in Callers |-> NoRequest]

\* (mutant) userService.Create does not look at the Email
InvalidInputNameOnly(op, id, ptr, h) ==
    CASE op \in {"GetByID", "Delete"} -> id = ""
      [] op = "Update" -> h[ptr].ID = ""
      [] op = "Create" -> h[ptr].Name = ""

\* the check at the head of each userService method, on the heap h
InvalidInput(op, id, ptr, h) ==
    CASE op \in {"GetByID", "Delete"} -> id = ""
      [] op = "Update" -> h[ptr].ID = ""
      [] op = "Create" -> h[ptr].Name = "" \/ h[ptr].Email = ""

\* the repository method a userService method calls first
FirstRepoCall(op) ==
    IF op = "Create" THEN "Create" ELSE "GetByID"

\* what the service saw s.userRepo.GetByID return for the map entry user
LookupResult(user) ==
    IF user = 0 THEN "nil" ELSE "user"

\* the service returns err to its caller
SvcReturned(c, err) ==
    [svc[c] EXCEPT !.pc = "returned", !.err = err]

\* goroutine c enters userService.<op> with id / user pointer ptr, the heap
\* being h: the input check, then the first repository call
SvcEnter(c, op, id, ptr, h) ==
    /\ cpc[c] = "idle"
    /\ heap' = h
    /\ IF InvalidInput(op, id, ptr, h)
       THEN /\ svc' = [svc EXCEPT ![c] = [op |-> op, id |-> id, ptr |-> ptr,
                                          pc |-> "returned", err |-> ErrInvalidUser,
                                          lookup |-> "none", calls |-> <<>>]]
            /\ ret' = NoRet
            /\ UNCHANGED <<users, mutex, cpc, cur, held, written>>
       ELSE /\ RepoLock(c, [op |-> FirstRepoCall(op),
                            id |-> IF op \in {"Update", "Create"} THEN h[ptr].ID ELSE id,
                            ptr |-> IF op = "Create" THEN ptr ELSE 0])
            /\ svc' = [svc EXCEPT ![c] = [op |-> op,
                          id |-> IF op \in {"Update", "Create"} THEN h[ptr].ID ELSE id,
                          ptr |-> ptr,
                          pc |-> IF op = "Create" THEN "mutate" ELSE "lookup",
                          err |-> NilErr,
                          lookup |-> "none",
                          calls |-> <<FirstRepoCall(op)>>]]
            /\ UNCHANGED <<users, held, written>>

\* (mutant) the existence check goes on to the mutation whatever it found
SvcAfterLookupAlwaysFound(c, user) ==
    [svc[c] EXCEPT !.pc = "found"]

\* userService.Update / Delete after the existence check returned user
SvcAfterLookup(c, user) ==
    IF user = 0 THEN SvcReturned(c, ServiceErrUserNotFound)
    ELSE [svc[c] EXCEPT !.pc = "found"]

\* userService.GetByID: s.userRepo.GetByID returns; nil becomes ErrUserNotFound
SvcGetByIDReturn(c) ==
    /\ svc[c].op = "GetByID"
    /\ svc[c].pc = "lookup"
    /\ GetByID(c)
    /\ svc' = [svc EXCEPT ![c] = [SvcReturned(c, IF users[svc[c].id] = 0
                                                 THEN ServiceErrUserNotFound ELSE NilErr)
                                     EXCEPT !.lookup = LookupResult(users[svc[c].id])]]
    /\ UNCHANGED <<faulty, hnd, testVars, collVars>>

\* userService.Update / Delete: the existence check returns; existingUser is
\* only compared with nil
SvcLookupReturn(c) ==
    /\ svc[c].op \in {"Update", "Delete"}
    /\ svc[c].pc = "lookup"
    /\ cpc[c] = "locked"
    /\ RepoReturn(c, NilErr)
    /\ svc' = [svc EXCEPT ![c] = [SvcAfterLookup(c, users[svc[c].id])
                                     EXCEPT !.lookup = LookupResult(users[svc[c].id])]]
    /\ UNCHANGED <<users, heap, held, written>>
    /\ UNCHANGED nonRepoVars
    /\ UNCHANGED <<faulty, hnd, testVars, collVars>>

\* userService.Update / Delete: s.userRepo.Update / Delete is called
SvcMutateCall(c) ==
    /\ svc[c].pc = "found"
    /\ RepoLock(c, [op |-> svc[c].op, id |-> svc[c].id,
                    ptr |-> IF svc[c].op = "Update" THEN svc[c].ptr ELSE 0])
    /\ svc' = [svc EXCEPT ![c].pc = "mutate", ![c].calls = Append(@, svc[c].op)]
    /\ UNCHANGED <<users, heap, held, written>>
    /\ UNCHANGED nonRepoVars
    /\ UNCHANGED <<faulty, hnd, testVars, collVars>>

\* s.userRepo.Create / Update / Delete returns; its error is returned unchanged
SvcMutateReturn(c) ==
    /\ svc[c].pc = "mutate"
    /\ \/ Create(c)
       \/ Update(c)
       \/ Delete(c)
    /\ svc' = [svc EXCEPT ![c] = SvcReturned(c, ret'.err)]
    /\ UNCHANGED <<faulty, hnd, testVars, collVars>>

\* the repository call in progress fails in the driver; the service returns
\* the error unchanged
SvcRepoFails(c) ==
    /\ faulty
    /\ svc[c].pc \in {"lookup", "mutate"}
    /\ cpc[c] = "locked"
    /\ RepoReturn(c, ErrRepoFailure)
    /\ svc' = [svc EXCEPT ![c] = [SvcReturned(c, ErrRepoFailure)
                                     EXCEPT !.lookup = IF svc[c].pc = "lookup"
                                                       THEN "error" ELSE @]]
    /\ UNCHANGED <<users, heap, held, written>>
    /\ UNCHANGED nonRepoVars
    /\ UNCHANGED <<faulty, hnd, testVars, collVars>>

\* the other variables of a step taken by a handler or a direct caller
SvcFrame == UNCHANGED <<nonRepoVars, faulty, testVars, collVars>>

\* a caller other than a handler (as the service tests) calls GetByID(id) or
\* Delete(id)
ServiceCallByID(c, op, id) ==
    /\ op \in {"GetByID", "Delete"}
    /\ hnd[c].pc \in {"none", "done"}
    /\ svc[c].pc \in {"none", "returned"}
    /\ SvcEnter(c, op, id, 0, heap)
    /\ hnd' = [hnd EXCEPT ![c] = NoRequest]
    /\ SvcFrame

\* a caller other than a handler calls Create(user) or Update(user) with a
\* user it built (Create: with the ID domain.NewUser generated)
ServiceCallWithUser(c, op, id, name, email) ==
    /\ op \in {"Create", "Update"}
    /\ op = "Create" => id \in IDs
    /\ hnd[c].pc \in {"none", "done"}
    /\ svc[c].pc \in {"none", "returned"}
    /\ SvcEnter(c, op, id, OwnAddr(c),
                [heap EXCEPT ![OwnAddr(c)] = UserAt(id, name, email, clock)])
    /\ hnd' = [hnd EXCEPT ![c] = NoRequest]
    /\ SvcFrame

\* the direct caller has taken the result of its call; the domain.User it
\* built is garbage
ServiceCallDone(c) ==
    /\ hnd[c].pc = "none"
    /\ svc[c].pc = "returned"
    /\ svc' = [svc EXCEPT ![c] = NoSvc]
    /\ heap' = [heap EXCEPT ![OwnAddr(c)] = NoUser]
    /\ ret' = NoRet
    /\ UNCHANGED <<users, mutex, cpc, cur, held, written, hnd>>
    /\ SvcFrame

----------------------------------------------------------------------------
(* user.Handler *)

StatusOK == 200

StatusCreated == 201

StatusNoContent == 204

StatusBadRequest == 400

StatusNotFound == 404

StatusInternalServerError == 500

Methods == {"GET", "POST", "PUT", "DELETE"}

\* the handler writes its response and returns; the domain.User it built
\* is garbage
Respond(c, status) ==
    /\ hnd' = [hnd EXCEPT ![c] = [NoRequest EXCEPT !.method = hnd[c].method,
                                                   !.pc = "done", !.status = status]]
    /\ svc' = [svc EXCEPT ![c] = NoSvc]
    /\ heap' = [heap EXCEPT ![OwnAddr(c)] = NoUser]
    /\ ret' = NoRet
    /\ UNCHANGED <<users, mutex, cpc, cur, held, written>>

\* the request as the handler starts on it
Request(method, id, name, email, at) ==
    [method |-> method, id |-> id, name |-> name, email |-> email, pc |-> at,
     status |-> 0]

HandlerIdle(c) ==
    /\ hnd[c].pc \in {"none", "done"}
    /\ svc[c].pc \in {"none", "returned"}
    /\ cpc[c] = "idle"

\* GetUser, UpdateUser, DeleteUser: id == "" is answered 400 at once
HandlerEmptyID(c, method) ==
    /\ method \in {"GET", "PUT", "DELETE"}
    /\ HandlerIdle(c)
    /\ hnd' = [hnd EXCEPT ![c] = [NoRequest EXCEPT !.method = method, !.pc = "done",
                                                   !.status = StatusBadRequest]]
    /\ ret' = NoRet
    /\ UNCHANGED <<users, mutex, heap, cpc, cur, held, written, svc>>
    /\ SvcFrame

\* GetUser and UpdateUser call userService.GetByID(id), DeleteUser calls
\* userService.Delete(id)
HandlerCallByID(c, method, id, name, email) ==
    /\ method \in {"GET", "PUT", "DELETE"}
    /\ method = "PUT" => c \in Keeps
    /\ method # "PUT" => name = "none" /\ email = "none"
    /\ method = "PUT" => name # "none" /\ email # "none"
    /\ HandlerIdle(c)
    /\ SvcEnter(c, IF method = "DELETE" THEN "Delete" ELSE "GetByID", id, 0, heap)
    /\ hnd' = [hnd EXCEPT ![c] = Request(method, id, name, email,
                    CASE method = "GET" -> "get"
                      [] method = "PUT" -> "existing"
                      [] method = "DELETE" -> "delete")]
    /\ SvcFrame

\* CreateUser: an empty name is answered 400; otherwise domain.NewUser
\* (whose generated ID is id) is passed to userService.Create
HandlerCreateUser(c, id, name, email) ==
    /\ HandlerIdle(c)
    /\ IF name = ""
       THEN /\ hnd' = [hnd EXCEPT ![c] = [NoRequest EXCEPT !.method = "POST",
                                                !.pc = "done",
                                                !.status = StatusBadRequest]]
            /\ ret' = NoRet
            /\ UNCHANGED <<users, mutex, heap, cpc, cur, held, written, svc>>
       ELSE /\ SvcEnter(c, "Create", id, OwnAddr(c),
                  [heap EXCEPT ![OwnAddr(c)] = UserAt(id, name, email, clock)])
            /\ hnd' = [hnd EXCEPT ![c] = Request("POST", id, name, email, "create")]
    /\ SvcFrame

\* the status a handler answers with when the service returned err
\* (ok: the status of success; notFound: the handler tests for
\* service.ErrUserNotFound)
StatusFor(err, ok, notFound) ==
    IF err = NilErr THEN ok
    ELSE IF notFound /\ err = ServiceErrUserNotFound THEN StatusNotFound
    ELSE StatusInternalServerError

\* GetUser, CreateUser, DeleteUser and the end of UpdateUser: the service has
\* returned and the handler answers
HandlerRespond(c) ==
    /\ hnd[c].pc \in {"get", "create", "update", "delete"}
    /\ svc[c].pc = "returned"
    /\ Respond(c, CASE hnd[c].pc = "get" -> StatusFor(svc[c].err, StatusOK, TRUE)
                    [] hnd[c].pc = "create" -> StatusFor(svc[c].err, StatusCreated, FALSE)
                    [] hnd[c].pc = "update" -> StatusFor(svc[c].err, StatusOK, FALSE)
                    [] hnd[c].pc = "delete" -> StatusFor(svc[c].err, StatusNoContent, TRUE))
    /\ SvcFrame

\* UpdateUser: userService.GetByID failed
HandlerExistingFailed(c) ==
    /\ hnd[c].pc = "existing"
    /\ svc[c].pc = "returned"
    /\ svc[c].err # NilErr
    /\ Respond(c, StatusFor(svc[c].err, StatusOK, TRUE))
    /\ SvcFrame

\* UpdateUser: the request's fields are assigned to existingUser, which is
\* passed to userService.Update
HandlerUpdateExisting(c, p) ==
    /\ hnd[c].pc = "existing"
    /\ svc[c].pc = "returned"
    /\ svc[c].err = NilErr
    /\ p \in held[c]
    /\ SvcEnter(c, "Update", hnd[c].id, p,
                [heap EXCEPT ![p].Name = hnd[c].name,
                             ![p].Email = IF hnd[c].email # "" THEN hnd[c].email ELSE @])
    /\ hnd' = [hnd EXCEPT ![c].pc = "update"]
    /\ SvcFrame

----------------------------------------------------------------------------
(* domain.NewUser *)

\* time.Now().Format("20060102150405") + "-user" for each second of the clock
IDOfSecond == <<"id1", "id2">>

\* GenerateID at time t
GenerateID(t) ==
    IDOfSecond[t + 1]

\* a second passes
ClockTick ==
    /\ clock + 1 < Len(IDOfSecond)
    /\ clock' = clock + 1
    /\ UNCHANGED <<resVars, cfgVars, orchVars, histVars, procVars, harnessVars,
                   repoVars, aboveVars, mongoVars, httpVars>>

----------------------------------------------------------------------------
(* userRepositoryImpl over MongoDB *)

MongoEmails == {"ann@x.com", "bob@x.com"}

\* Create calls are started while the collection holds fewer documents
MaxDocuments == 3

NoCreating == [pc |-> "idle", email |-> "none", err |-> NilErr]

\* NewUserRepository: the collection as the program finds it; no index is
\* created
MongoInit ==
    /\ documents = <<>>
    /\ indexed = FALSE
    /\ creating = [c \in Callers |-> NoCreating]

\* BaseRepository.Count with the filter {"email": email}
Count(email) ==
    Cardinality({i \in 1..Len(documents) : documents[i] = email})

\* BaseRepository.Exists with the filter {"email": email}
MongoExists(email) ==
    Count(email) > 0

\* userRepositoryImpl.Create up to the result of r.Exists: a document with
\* the email is found and ErrUserExists returned, or the call goes on
MongoCreateExists(c, email) ==
    /\ creating[c].pc \in {"idle", "returned"}
    /\ Len(documents) < MaxDocuments
    /\ creating' = [creating EXCEPT ![c] =
                        IF MongoExists(email)
                        THEN [pc |-> "returned", email |-> email, err |-> ErrUserExists]
                        ELSE [pc |-> "insert", email |-> email, err |-> NilErr]]
    /\ UNCHANGED <<documents, indexed>>
    /\ UNCHANGED nonMongoVars

\* userRepositoryImpl.Create from r.InsertOne on: the server refuses a
\* duplicate key of a unique index, which BaseRepository.InsertOne returns
\* as ErrAlreadyExists; otherwise the document is persisted
MongoCreateInsertOne(c) ==
    /\ creating[c].pc = "insert"
    /\ IF indexed /\ Count(creating[c].email) > 0
       THEN /\ creating' = [creating EXCEPT ![c].pc = "returned",
                                             ![c].err = ErrUserExists]
            /\ UNCHANGED documents
       ELSE /\ creating' = [creating EXCEPT ![c].pc = "returned"]
            /\ documents' = Append(documents, creating[c].email)
    /\ UNCHANGED indexed
    /\ UNCHANGED nonMongoVars

\* userRepositoryImpl.EnsureIndexes: the unique index on email is built
\* unless the collection holds two documents with one email
EnsureIndexes ==
    /\ ~indexed
    /\ indexed' = (\A e \in MongoEmails : Count(e) <= 1)
    /\ UNCHANGED <<documents, creating>>
    /\ UNCHANGED nonMongoVars

----------------------------------------------------------------------------
(* BaseRepository over a MongoDB collection *)

ErrNotFound == ErrUserNotFound

ErrAlreadyExists == ErrUserExists

\* a storage fault, wrapped by fmt.Errorf("failed to ...: %w", err)
ErrStorage == "failed: storage fault"

HexDigits == {"0", "1", "2", "3", "4", "5", "6", "7", "8", "9",
              "a", "b", "c", "d", "e", "f", "A", "B", "C", "D", "E", "F"}

\* the value of a hex digit does not depend on its case
Lower(ch) ==
    CASE ch = "A" -> "a" [] ch = "B" -> "b" [] ch = "C" -> "c"
      [] ch = "D" -> "d" [] ch = "E" -> "e" [] ch = "F" -> "f"
      [] OTHER -> ch

\* the number of characters of the hex form of an ObjectID (12 bytes)
ObjectIDHexLen == 24

\* primitive.ObjectIDFromHex on the characters s: the ObjectID (its bytes,
\* written in lower case) or an error
ObjectIDFromHex(s) ==
    IF Len(s) = ObjectIDHexLen /\ \A i \in 1..Len(s) : s[i] \in HexDigits
    THEN [ok |-> TRUE, oid |-> [i \in 1..Len(s) |-> Lower(s[i])]]
    ELSE [ok |-> FALSE, oid |-> <<>>]

\* the _id of the filter FindByID, UpdateByID and DeleteByID build from id
IDFilter(id) ==
    IF ObjectIDFromHex(id).ok
    THEN [t |-> "ObjectID", v |-> ObjectIDFromHex(id).oid]
    ELSE [t |-> "string", v |-> id]

\* id strings: hex in lower and in upper case, another hex string, a string
\* with a character that is no hex digit, and a short string
HexLower == [i \in 1..ObjectIDHexLen |-> IF i = ObjectIDHexLen THEN "1" ELSE "a"]

HexUpper == [i \in 1..ObjectIDHexLen |-> IF i = ObjectIDHexLen THEN "1" ELSE "A"]

HexOther == [i \in 1..ObjectIDHexLen |-> IF i = ObjectIDHexLen THEN "2" ELSE "a"]

NotHex == [i \in 1..ObjectIDHexLen |-> IF i = ObjectIDHexLen THEN "g" ELSE "a"]

ShortID == <<"i", "d", "1">>

IDStrings == {HexLower, HexUpper, HexOther, NotHex, ShortID}

\* the _id values documents are inserted with: ObjectIDs and strings
StoredIDs ==
    {[t |-> "ObjectID", v |-> HexLower], [t |-> "ObjectID", v |-> HexOther],
     [t |-> "string", v |-> ShortID], [t |-> "string", v |-> HexLower]}

NoDoc == [_id |-> [t |-> "none", v |-> <<>>], name |-> "none", email |-> "none",
          createdAt |-> 0, updatedAt |-> 0]

NoBase == [op |-> "none", id |-> <<>>, fault |-> FALSE, update |-> <<>>,
           sent |-> <<>>, at |-> 0, err |-> NilErr, doc |-> NoDoc]

\* the collection holds fewer documents when one is inserted
MaxColl == 2

CollInit ==
    /\ coll = {}
    /\ base = NoBase

\* the other variables
nonCollVars == <<resVars, cfgVars, orchVars, histVars, procVars, harnessVars,
                repoVars, testVars, svcVars, mongoVars, timeVars, httpVars>>

\* the documents the filter on _id matches
Matching(filter) ==
    {d \in coll : d._id = filter}

\* BaseRepository.InsertOne of a document that has an _id: a duplicate key
\* is returned as ErrAlreadyExists
BaseInsertOne(doc) ==
    /\ Cardinality(coll) < MaxColl
    /\ IF Matching(doc._id) # {}
       THEN /\ base' = [NoBase EXCEPT !.op = "InsertOne", !.err = ErrAlreadyExists]
            /\ UNCHANGED coll
       ELSE /\ base' = [NoBase EXCEPT !.op = "InsertOne", !.id = doc._id.v]
            /\ coll' = coll \cup {doc}
    /\ UNCHANGED nonCollVars

\* (mutant) a missing document is returned as a zero document without error
FindErrorNilOnMissing(matched, fault) ==
    IF fault THEN ErrStorage ELSE NilErr

\* the error of FindByID after FindOne(...).Decode(&result): ErrNoDocuments
\* becomes ErrNotFound, any other error is wrapped
FindError(matched, fault) ==
    IF fault THEN ErrStorage
    ELSE IF matched = {} THEN ErrNotFound
    ELSE NilErr

\* BaseRepository.FindByID: (result, error)
FindByID(id, fault) ==
    LET matched == Matching(IDFilter(id))
        err == FindError(matched, fault)
    IN [err |-> err,
        doc |-> IF err = NilErr /\ matched # {} THEN CHOOSE d \in matched : TRUE
                ELSE NoDoc]

\* a call of BaseRepository.FindByID
BaseFindByID(id, fault) ==
    /\ base' = [NoBase EXCEPT !.op = "FindByID", !.id = id, !.fault = fault,
                               !.err = FindByID(id, fault).err,
                               !.doc = FindByID(id, fault).doc]
    /\ UNCHANGED coll
    /\ UNCHANGED nonCollVars

\* keys of update documents, as their characters
KeySet == <<"$", "s", "e", "t">>

KeyInc == <<"$", "i", "n", "c">>

KeyName == <<"n", "a", "m", "e">>

KeyEmail == <<"e", "m", "a", "i", "l">>

KeyVisits == <<"v", "i", "s", "i", "t", "s">>

KeyUpdatedAt == <<"u", "p", "d", "a", "t", "e", "d", "A", "t">>

\* values: a bson.M (t = "M") and a struct or bson.D (t = "D") with their
\* fields m, a string (t = "S") and a time (t = "T")
Str(v) == [t |-> "S", v |-> v]

Time(v) == [t |-> "T", v |-> v]

BsonM(m) == [t |-> "M", m |-> m]

BsonD(m) == [t |-> "D", m |-> m]

\* hasOperators: some key of the map starts with '$'
hasOperators(update) ==
    \E key \in DOMAIN update : Len(key) > 0 /\ key[1] = "$"

\* the map m with m[key] = value
Put(m, key, value) ==
    [k \in DOMAIN m \cup {key} |-> IF k = key THEN value ELSE m[k]]

\* UpdateByID: the update document before the time stamp (the type switch)
WrapUpdate(update) ==
    IF update.t = "M"
    THEN IF hasOperators(update.m) THEN update.m ELSE (KeySet :> update)
    ELSE (KeySet :> update)

\* UpdateByID: the update document sent to UpdateOne at time t;
\* updatedAt is set if updateDoc["$set"] is a bson.M
UpdateDoc(update, t) ==
    LET updateDoc == WrapUpdate(update) IN
    IF KeySet \in DOMAIN updateDoc /\ updateDoc[KeySet].t = "M"
    THEN [updateDoc EXCEPT ![KeySet] =
             BsonM(Put(updateDoc[KeySet].m, KeyUpdatedAt, Time(t)))]
    ELSE updateDoc

\* the fields the update document sets
SetFields(updateDoc) ==
    IF KeySet \in DOMAIN updateDoc THEN updateDoc[KeySet].m ELSE <<>>

\* the document d after the server has applied updateDoc ($inc acts on a
\* counter the documents here do not carry)
Applied(d, updateDoc) ==
    LET f == SetFields(updateDoc) IN
    [d EXCEPT !.name = IF KeyName \in DOMAIN f THEN f[KeyName].v ELSE @,
              !.email = IF KeyEmail \in DOMAIN f THEN f[KeyEmail].v ELSE @,
              !.updatedAt = IF KeyUpdatedAt \in DOMAIN f THEN f[KeyUpdatedAt].v ELSE @]

\* BaseRepository.UpdateByID(id, update): MatchedCount == 0 is ErrNotFound
UpdateByID(op, id, update) ==
    LET matched == Matching(IDFilter(id))
        sent == UpdateDoc(update, clock)
    IN
    /\ base' = [NoBase EXCEPT !.op = op, !.id = id, !.update = update,
                               !.sent = sent, !.at = clock,
                               !.err = IF matched = {} THEN ErrNotFound ELSE NilErr]
    /\ coll' = (coll \ matched) \cup {Applied(d, sent) : d \in matched}

\* a call of BaseRepository.UpdateByID
BaseUpdateByID(id, update) ==
    /\ UpdateByID("UpdateByID", id, update)
    /\ UNCHANGED nonCollVars

\* userRepositoryImpl.Update(user): name, email and updatedAt are sent to
\* UpdateByID; ErrNotFound is returned as ErrUserNotFound
MongoUpdate(id, name, email) ==
    /\ UpdateByID("Update", id,
                  BsonM((KeyName :> Str(name)) @@ (KeyEmail :> Str(email))
                        @@ (KeyUpdatedAt :> Time(clock))))
    /\ UNCHANGED nonCollVars

\* the characters of the IDs of the users
IDChars == [id1 |-> <<"i", "d", "1">>, id2 |-> <<"i", "d", "2">>]

\* the ObjectID the driver generates for a document inserted without _id
NewObjectID ==
    CHOOSE o \in {HexLower, HexOther} : Matching([t |-> "ObjectID", v |-> o]) = {}

\* userRepositoryImpl.GetByID(id): ErrNotFound of FindByID becomes (nil, nil)
MongoGetByID(id) ==
    LET found == FindByID(IDChars[id], FALSE) IN
    /\ base' = [NoBase EXCEPT !.op = "GetByID", !.id = IDChars[id],
                               !.err = IF found.err = ErrNotFound THEN NilErr
                                       ELSE found.err,
                               !.doc = found.doc]
    /\ UNCHANGED coll

\* userRepositoryImpl.List
MongoList ==
    /\ base' = [NoBase EXCEPT !.op = "List"]
    /\ UNCHANGED coll

\* toDocument: the _id is set only if user.ID is the hex form of an ObjectID
DocumentID(id) ==
    IF ObjectIDFromHex(id).ok THEN [t |-> "ObjectID", v |-> ObjectIDFromHex(id).oid]
    ELSE [t |-> "ObjectID", v |-> NewObjectID]

\* userRepositoryImpl.Create(user), without other callers in between:
\* ErrUserExists if a document has the email, else InsertOne
MongoCreate(user) ==
    IF \E d \in coll : d.email = user.Email
    THEN /\ base' = [NoBase EXCEPT !.op = "Create", !.err = ErrUserExists]
         /\ UNCHANGED coll
    ELSE LET doc == [_id |-> DocumentID(IDChars[user.ID]), name |-> user.Name,
                     email |-> user.Email, createdAt |-> clock, updatedAt |-> clock]
         IN IF Matching(doc._id) # {}
            THEN /\ base' = [NoBase EXCEPT !.op = "Create", !.err = ErrAlreadyExists]
                 /\ UNCHANGED coll
            ELSE /\ base' = [NoBase EXCEPT !.op = "Create", !.id = doc._id.v]
                 /\ coll' = coll \cup {doc}

\* userRepositoryImpl.Delete(id): DeleteByID, DeletedCount == 0 is
\* ErrNotFound, returned as ErrUserNotFound
MongoDelete(id) ==
    LET matched == Matching(IDFilter(IDChars[id])) IN
    /\ base' = [NoBase EXCEPT !.op = "Delete", !.id = IDChars[id],
                               !.err = IF matched = {} THEN ErrNotFound ELSE NilErr]
    /\ coll' = coll \ matched

\* the call of the UserRepository interface on userRepositoryImpl; user is
\* the argument of Create and Update
MongoCall(call, user) ==
    CASE call.op = "GetByID" -> MongoGetByID(call.id)
      [] call.op = "List" -> MongoList
      [] call.op = "Create" -> MongoCreate(user)
      [] call.op = "Update" ->
            UpdateByID("Update", IDChars[user.ID],
                       BsonM((KeyName :> Str(user.Name)) @@ (KeyEmail :> Str(user.Email))
                             @@ (KeyUpdatedAt :> Time(clock))))
      [] call.op = "Delete" -> MongoDelete(call.id)

----------------------------------------------------------------------------
(* httpclient.Client: Request with retries, circuit breaker disabled *)

\* Config.Retry.MaxRetries
MaxRetries == 1

\* the attempts of one request the model follows
MaxAttempts == 4

\* the calls of Client.Request
Requests == {"q1", "q2"}

\* what doRequest returns: an error (status 0) or a response with a status
Outcomes == {0, 200, 429, 500}

\* DefaultConfig: Retry.ShouldRetry(nil, statusCode)
ShouldRetry(statusCode) == statusCode >= 500 \/ statusCode = 0 \/ statusCode = 429

NoBackOff == [kind |-> "none", numTries |-> 0]

NoClientRequest == [pc |-> "none", attempt |-> 0, statusCode |-> -1, retryErr |-> FALSE]

HTTPInit ==
    /\ retryBackOff = NoBackOff
    /\ requests = [q \in Requests |-> NoClientRequest]

nonHTTPVars == <<resVars, cfgVars, orchVars, histVars, procVars, harnessVars,
                repoVars, aboveVars, mongoVars, timeVars>>

\* New: one BackOff for the client, backoff.WithMaxRetries over an
\* exponential backoff if cfg.Retry.Enabled, else StopBackOff
New(enabled) ==
    /\ retryBackOff.kind = "none"
    /\ retryBackOff' = [kind |-> IF enabled THEN "tries" ELSE "stop", numTries |-> 0]
    /\ UNCHANGED <<requests, nonHTTPVars>>

\* config.Retry.Enabled
RetryEnabled == retryBackOff.kind = "tries"

\* Client.Request enters executeWithRetries: without retries requestFunc is
\* called directly; with retries backoff.Retry first resets c.retryBackOff
RequestStart(q) ==
    /\ retryBackOff.kind # "none"
    /\ requests[q].pc = "none"
    /\ requests' = [requests EXCEPT ![q] = [NoClientRequest EXCEPT !.pc = "operation"]]
    /\ retryBackOff' = IF RetryEnabled THEN [retryBackOff EXCEPT !.numTries = 0]
                       ELSE retryBackOff
    /\ UNCHANGED nonHTTPVars

\* one call of requestFunc: doRequest returns an error or a response
Operation(q, outcome) ==
    /\ requests[q].pc = "operation"
    /\ requests[q].attempt < MaxAttempts
    /\ requests' = [requests EXCEPT ![q] =
           [pc |-> IF RetryEnabled /\ (outcome = 0 \/ ShouldRetry(outcome))
                   THEN "failed" ELSE "returned",
            attempt |-> @.attempt + 1,
            statusCode |-> outcome,
            retryErr |-> FALSE]]
    /\ UNCHANGED <<retryBackOff, nonHTTPVars>>

\* backoff.Retry asks c.retryBackOff.NextBackOff() after a failed
\* operation: Stop once numTries has reached maxTries or the exponential
\* backoff has used MaxElapsedTime, else numTries++ and the operation again
NextBackOff(q, elapsed) ==
    /\ requests[q].pc = "failed"
    /\ IF MaxRetries = 0 \/ MaxRetries <= retryBackOff.numTries
       THEN /\ requests' = [requests EXCEPT ![q].pc = "returned", ![q].retryErr = TRUE]
            /\ UNCHANGED retryBackOff
       ELSE /\ retryBackOff' = [retryBackOff EXCEPT !.numTries = @ + 1]
            /\ requests' = IF elapsed
                            THEN [requests EXCEPT ![q].pc = "returned",
                                                  ![q].retryErr = TRUE]
                            ELSE [requests EXCEPT ![q].pc = "operation"]
    /\ UNCHANGED nonHTTPVars

\* Client.Request returns to its caller
RequestReturn(q) ==
    /\ requests[q].pc = "returned"
    /\ requests' = [requests EXCEPT ![q] = NoClientRequest]
    /\ UNCHANGED <<retryBackOff, nonHTTPVars>>

HTTPNext ==
    \/ \E enabled \in BOOLEAN : New(enabled)
    \/ \E q \in Requests : RequestStart(q)
    \/ \E q \in Requests, outcome \in Outcomes : Operation(q, outcome)
    \/ \E q \in Requests, elapsed \in BOOLEAN : NextBackOff(q, elapsed)
    \/ \E q \in Requests : RequestReturn(q)

----------------------------------------------------------------------------
(* InitResources and CloseResources *)

\* resourcesList: resources.DB, resources.Redis (as built by main: NewDB, NewRedis)
resourcesList == <<"DB", "Redis">>

ListedResources == {resourcesList[k] : k \in 1..Len(resourcesList)}

Nil == <<>>

\* errors.New(result.name + ": " + result.err.Error())
ErrorsNew(name, err) == <<name, ": ", err>>

RECURSIVE JoinFrom(_, _)
\* the loop building errorMsg from initErrors[k..]
JoinFrom(errs, k) ==
    IF k > Len(errs) THEN <<>>
    ELSE (IF k > 1 THEN <<"; ">> ELSE <<>>) \o errs[k] \o JoinFrom(errs, k + 1)

\* the error InitResources returns for a non-empty initErrors
InitErrorMsg(errs) == <<"failed to initialize resources: ">> \o JoinFrom(errs, 1)

NoGoroutines == [r \in ListedResources |-> "none"]

NoResults == [r \in ListedResources |-> [name |-> "", err |-> NilErr]]

AppInitCommon ==
    /\ ResInit
    /\ RepoInit
    /\ AboveInit
    /\ SvcInit
    /\ MongoInit
    /\ clock = 0
    /\ CollInit
    /\ HTTPInit
    /\ fn = "none"
    /\ caller = "none"
    /\ fpc = "idle"
    /\ gpc = NoGoroutines
    /\ gres = NoResults
    /\ resultsChan = <<>>
    /\ idx = 0
    /\ initErrors = <<>>
    /\ successCount = 0
    /\ failureCount = 0
    /\ initResult = Nil
    /\ connErr = [r \in ListedResources |-> "none"]
    /\ connCalls = [r \in ListedResources |-> 0]
    /\ closeErr = [r \in ListedResources |-> "none"]
    /\ closeCalls = [r \in ListedResources |-> 0]
    /\ closeSeen = {}
    /\ tracerProvider = FALSE
    /\ serverPc = "none"
    /\ listening = FALSE
    /\ serverErrors = <<>>
    /\ shutdown = FALSE
    /\ now = 0
    /\ runResult = "none"
    /\ firstResult = Nil

\* Entering InitResources on behalf of c: the locals are fresh; in the
\* concurrent version the loop has started one goroutine per resource.
EnterInit(c) ==
    /\ fn' = "InitResources"
    /\ caller' = c
    /\ fpc' = IF variant = "concurrent" THEN "collect" ELSE "db"
    /\ gpc' = IF variant = "concurrent"
              THEN [r \in ListedResources |-> "ready"] ELSE NoGoroutines
    /\ gres' = NoResults
    /\ resultsChan' = <<>>
    /\ idx' = 0
    /\ initErrors' = <<>>
    /\ successCount' = 0
    /\ failureCount' = 0
    /\ initResult' = Nil
    /\ connErr' = [r \in ListedResources |-> "none"]

\* (mutant) the goroutine reads the loop variable instead of its argument
ResultOfLoopVariable(r, err) ==
    [name |-> Name(resourcesList[Len(resourcesList)]), err |-> err]

\* the resourceInitResult a goroutine builds: its own resource's name and error
ResultOf(r, err) ==
    [name |-> Name(r), err |-> err]

\* InitResources, concurrent: the goroutine of resource r calls Connect
GoConnect(r, dial, up) ==
    /\ variant = "concurrent"
    /\ fn = "InitResources"
    /\ gpc[r] = "ready"
    /\ ApplyRealConnect(r, dial, up)
    /\ gres' = [gres EXCEPT ![r] = ResultOf(r, RealConnect(r, client[r], dial, up).err)]
    /\ connErr' = [connErr EXCEPT ![r] = RealConnect(r, client[r], dial, up).err]
    /\ connCalls' = [connCalls EXCEPT ![r] = @ + 1]
    /\ gpc' = [gpc EXCEPT ![r] = "called"]
    /\ UNCHANGED <<fn, caller, fpc, resultsChan, idx, initErrors, successCount,
                   failureCount, initResult, closeErr, closeCalls, closeSeen>>
    /\ UNCHANGED <<cfgVars, nonAppVars, procVars, harnessVars>>

\* (mutant) the channel has room for one result less
ResultsChanCapShort ==
    Len(resourcesList) - 1

\* make(chan resourceInitResult, len(resourcesList))
ResultsChanCap ==
    Len(resourcesList)

\* a goroutine sends its result on resultsChan
GoSend(r) ==
    /\ fn \in {"InitResources", "CloseResources"}
    /\ gpc[r] = "called"
    /\ Len(resultsChan) < ResultsChanCap
    /\ resultsChan' = Append(resultsChan, gres[r])
    /\ gpc' = [gpc EXCEPT ![r] = "sent"]
    /\ UNCHANGED <<fn, caller, fpc, gres, idx, initErrors, successCount,
                   failureCount, initResult>>
    /\ UNCHANGED <<resVars, cfgVars, nonAppVars, histVars, procVars, harnessVars>>

\* InitResources, concurrent: one iteration of the collection loop
InitCollect ==
    /\ fn = "InitResources"
    /\ fpc = "collect"
    /\ idx < Len(resourcesList)
    /\ resultsChan # <<>>
    /\ LET result == Head(resultsChan) IN
       /\ initErrors' = IF result.err # NilErr
                        THEN Append(initErrors, ErrorsNew(result.name, result.err))
                        ELSE initErrors
       /\ successCount' = IF result.err # NilErr THEN successCount
                          ELSE successCount + 1
    /\ resultsChan' = Tail(resultsChan)
    /\ idx' = idx + 1
    /\ UNCHANGED <<fn, caller, fpc, gpc, gres, failureCount, initResult>>
    /\ UNCHANGED <<resVars, cfgVars, nonAppVars, histVars, procVars, harnessVars>>

\* InitResources, concurrent: after the loop, build the error or return nil
InitReturn ==
    /\ fn = "InitResources"
    /\ fpc = "collect"
    /\ idx = Len(resourcesList)
    /\ initResult' = IF Len(initErrors) > 0 THEN InitErrorMsg(initErrors) ELSE Nil
    /\ fpc' = "returned"
    /\ UNCHANGED <<fn, caller, gpc, gres, resultsChan, idx, initErrors,
                   successCount, failureCount>>
    /\ UNCHANGED <<resVars, cfgVars, nonAppVars, histVars, procVars, harnessVars>>

\* where the sequential InitResources goes after Connect of resource r
\* returned err: it returns the error at once, else goes on to the next one
SeqInitAfter(r, err) ==
    IF err # NilErr THEN [fpc |-> "returned", result |-> <<err>>]
    ELSE IF r = "DB" THEN [fpc |-> "redis", result |-> Nil]
    ELSE [fpc |-> "returned", result |-> Nil]

\* InitResources, sequential: Connect of the resource the body is at
SeqInitConnect(r, dial, up) ==
    /\ fn = "InitResources"
    /\ fpc = (IF r = "DB" THEN "db" ELSE "redis")
    /\ ApplyRealConnect(r, dial, up)
    /\ LET err == RealConnect(r, client[r], dial, up).err IN
       /\ connErr' = [connErr EXCEPT ![r] = err]
       /\ fpc' = SeqInitAfter(r, err).fpc
       /\ initResult' = SeqInitAfter(r, err).result
    /\ connCalls' = [connCalls EXCEPT ![r] = @ + 1]
    /\ UNCHANGED <<fn, caller, gpc, gres, resultsChan, idx, initErrors,
                   successCount, failureCount, closeErr, closeCalls, closeSeen>>
    /\ UNCHANGED <<cfgVars, nonAppVars, procVars, harnessVars>>

\* Entering CloseResources: fresh locals, one goroutine per resource in the
\* concurrent version
EnterClose ==
    /\ fn' = "CloseResources"
    /\ caller' = "Run"
    /\ fpc' = IF variant = "concurrent" THEN "collect" ELSE "db"
    /\ gpc' = IF variant = "concurrent"
              THEN [r \in ListedResources |-> "ready"] ELSE NoGoroutines
    /\ gres' = NoResults
    /\ resultsChan' = <<>>
    /\ idx' = 0
    /\ successCount' = 0
    /\ failureCount' = 0
    /\ closeErr' = [r \in ListedResources |-> "none"]
    /\ closeSeen' = {}
    /\ UNCHANGED <<initErrors, initResult>>

\* what the environment may answer to a Close call: the driver closes the
\* client ("ok"), fails ("fail"), or, on a live client, never returns ("hang")
CloseEnvs(r) == {"ok", "fail"} \cup (IF client[r] = "open" THEN {"hang"} ELSE {})

\* CloseResources, concurrent: the goroutine of resource r calls Close
GoClose(r, env) ==
    /\ fn = "CloseResources"
    /\ gpc[r] = "ready"
    /\ closeCalls' = [closeCalls EXCEPT ![r] = @ + 1]
    /\ IF env = "hang"
       THEN /\ gpc' = [gpc EXCEPT ![r] = "hung"]
            /\ UNCHANGED <<resVars, gres, closeErr>>
       ELSE /\ ApplyRealClose(r, env = "fail")
            /\ gres' = [gres EXCEPT ![r] =
                          ResultOf(r, RealClose(r, client[r], env = "fail").err)]
            /\ closeErr' = [closeErr EXCEPT ![r] =
                              RealClose(r, client[r], env = "fail").err]
            /\ gpc' = [gpc EXCEPT ![r] = "called"]
    /\ UNCHANGED <<fn, caller, fpc, resultsChan, idx, initErrors, successCount,
                   failureCount, initResult, connErr, connCalls, closeSeen>>
    /\ UNCHANGED <<cfgVars, nonAppVars, procVars, harnessVars>>

\* CloseResources, concurrent: one iteration of the collection loop
CloseCollect ==
    /\ fn = "CloseResources"
    /\ fpc = "collect"
    /\ idx < Len(resourcesList)
    /\ resultsChan # <<>>
    /\ LET result == Head(resultsChan) IN
       /\ failureCount' = IF result.err # NilErr THEN failureCount + 1
                          ELSE failureCount
       /\ successCount' = IF result.err # NilErr THEN successCount
                          ELSE successCount + 1
       /\ closeSeen' = closeSeen \cup {result.name}
    /\ resultsChan' = Tail(resultsChan)
    /\ idx' = idx + 1
    /\ UNCHANGED <<fn, caller, fpc, gpc, gres, initErrors, initResult>>
    /\ UNCHANGED <<connErr, connCalls, closeErr, closeCalls>>
    /\ UNCHANGED <<resVars, cfgVars, nonAppVars, procVars, harnessVars>>

\* CloseResources, concurrent: the loop is over, the function returns
CloseReturn ==
    /\ fn = "CloseResources"
    /\ fpc = "collect"
    /\ idx = Len(resourcesList)
    /\ fpc' = "returned"
    /\ UNCHANGED <<fn, caller, gpc, gres, resultsChan, idx, initErrors,
                   successCount, failureCount, initResult>>
    /\ UNCHANGED <<resVars, cfgVars, nonAppVars, histVars, procVars, harnessVars>>

\* (mutant) CloseResources gives up at the first Close error
SeqCloseAfterReturnOnError(r, err) ==
    IF err # NilErr THEN "returned" ELSE IF r = "DB" THEN "redis" ELSE "returned"

\* where the sequential CloseResources goes after Close of resource r
\* returned err: the error is logged and the body goes on
SeqCloseAfter(r, err) ==
    IF r = "DB" THEN "redis" ELSE "returned"

\* CloseResources, sequential: Close of the resource the body is at
SeqClose(r, env) ==
    /\ fn = "CloseResources"
    /\ fpc = (IF r = "DB" THEN "db" ELSE "redis")
    /\ closeCalls' = [closeCalls EXCEPT ![r] = @ + 1]
    /\ IF env = "hang"
       THEN /\ fpc' = "hung"
            /\ UNCHANGED <<resVars, closeErr, closeSeen>>
       ELSE /\ ApplyRealClose(r, env = "fail")
            /\ closeErr' = [closeErr EXCEPT ![r] =
                              RealClose(r, client[r], env = "fail").err]
            /\ closeSeen' = closeSeen \cup {Name(r)}
            /\ fpc' = SeqCloseAfter(r, RealClose(r, client[r], env = "fail").err)
    /\ UNCHANGED <<fn, caller, gpc, gres, resultsChan, idx, initErrors,
                   successCount, failureCount, initResult, connErr, connCalls>>
    /\ UNCHANGED <<cfgVars, nonAppVars, procVars, harnessVars>>

----------------------------------------------------------------------------
(* main and App.Run *)

\* context.WithTimeout(context.Background(), 5*time.Second), in seconds
ShutdownTimeout == 5

AppInit ==
    /\ AppInitCommon
    /\ faulty = FALSE
    /\ variant \in {"concurrent", "sequential"}
    /\ mainVariant \in {"preinit", "wire"}
    /\ pc = "main"
    /\ plan = [r \in ListedResources |-> [dial |-> TRUE, up |-> TRUE]]
    /\ invocation = 0

\* main (cmd/server): InitResources before the application is built
MainInitResources ==
    /\ pc = "main"
    /\ mainVariant = "preinit"
    /\ EnterInit("main")
    /\ pc' = "init"
    /\ UNCHANGED <<connCalls, closeErr, closeCalls, closeSeen>>
    /\ UNCHANGED <<tracerProvider, serverPc, listening, serverErrors, shutdown,
                   now, runResult>>
    /\ UNCHANGED <<resVars, cfgVars, nonAppVars, harnessVars>>

\* main (cmd/server): InitResources failed -> log.Fatalf; else build the app
\* and call Run
MainAfterInit ==
    /\ pc = "init"
    /\ caller = "main"
    /\ fpc = "returned"
    /\ IF initResult # Nil
       THEN pc' = "exit" /\ runResult' = "Failed to initialize resources"
       ELSE pc' = "run" /\ UNCHANGED runResult
    /\ fn' = "none"
    /\ UNCHANGED <<caller, fpc, gpc, gres, resultsChan, idx, initErrors,
                   successCount, failureCount, initResult>>
    /\ UNCHANGED <<tracerProvider, serverPc, listening, serverErrors, shutdown, now>>
    /\ UNCHANGED <<resVars, cfgVars, nonAppVars, histVars, harnessVars>>

\* main (wire.InitializeApp): the app is built and Run is called
MainWire ==
    /\ pc = "main"
    /\ mainVariant = "wire"
    /\ pc' = "run"
    /\ UNCHANGED <<tracerProvider, serverPc, listening, serverErrors, shutdown,
                   now, runResult>>
    /\ UNCHANGED <<resVars, cfgVars, nonAppVars, orchVars, histVars, harnessVars>>

\* App.Run up to its call of InitResources; otel is the OpenTelemetry
\* configuration and the outcome of otel.InitTracer
RunStart(otel) ==
    /\ pc = "run"
    /\ IF otel = "fail"
       THEN /\ pc' = "exit"
            /\ runResult' = "failed to initialize OpenTelemetry"
            /\ UNCHANGED <<orchVars, connErr, tracerProvider>>
       ELSE /\ tracerProvider' = (otel = "ok")
            /\ EnterInit("Run")
            /\ pc' = "init"
            /\ UNCHANGED runResult
    /\ UNCHANGED <<connCalls, closeErr, closeCalls, closeSeen>>
    /\ UNCHANGED <<serverPc, listening, serverErrors, shutdown, now>>
    /\ UNCHANGED <<resVars, cfgVars, nonAppVars, harnessVars>>

\* (mutant) Run drops the error of InitResources
RunInitFailedIgnored(err) ==
    FALSE

\* App.Run: if err := resources.InitResources(...); err != nil
RunInitFailed(err) ==
    err # Nil

\* App.Run after InitResources: return the wrapped error, or start the
\* goroutine that runs ListenAndServe and wait in the select
RunAfterInit ==
    /\ pc = "init"
    /\ caller = "Run"
    /\ fpc = "returned"
    /\ IF RunInitFailed(initResult)
       THEN /\ pc' = "exit"
            /\ runResult' = "failed to initialize resources"
            /\ UNCHANGED serverPc
       ELSE /\ pc' = "select"
            /\ serverPc' = "spawned"
            /\ UNCHANGED runResult
    /\ fn' = "none"
    /\ UNCHANGED <<caller, fpc, gpc, gres, resultsChan, idx, initErrors,
                   successCount, failureCount, initResult>>
    /\ UNCHANGED <<tracerProvider, listening, serverErrors, shutdown, now>>
    /\ UNCHANGED <<resVars, cfgVars, nonAppVars, histVars, harnessVars>>

\* the server goroutine: ListenAndServe starts accepting requests
ServerListen ==
    /\ pc # "exit"
    /\ serverPc = "spawned"
    /\ serverPc' = "serving"
    /\ listening' = TRUE
    /\ UNCHANGED <<pc, tracerProvider, serverErrors, shutdown, now, runResult>>
    /\ UNCHANGED <<resVars, cfgVars, nonAppVars, orchVars, histVars, harnessVars>>

\* the server goroutine: ListenAndServe returns an error, which is sent on
\* serverErrors (capacity 1)
ServerError ==
    /\ pc # "exit"
    /\ serverPc \in {"spawned", "serving"}
    /\ serverPc' = "returned"
    /\ listening' = FALSE
    /\ serverErrors' = Append(serverErrors, "listen error")
    /\ UNCHANGED <<pc, tracerProvider, shutdown, now, runResult>>
    /\ UNCHANGED <<resVars, cfgVars, nonAppVars, orchVars, histVars, harnessVars>>

\* the operating system delivers SIGINT/SIGTERM to the shutdown channel
Signal ==
    /\ pc = "select"
    /\ ~shutdown
    /\ shutdown' = TRUE
    /\ UNCHANGED <<pc, tracerProvider, serverPc, listening, serverErrors, now,
                   runResult>>
    /\ UNCHANGED <<resVars, cfgVars, nonAppVars, orchVars, histVars, harnessVars>>

\* App.Run, select: case err := <-serverErrors
RunSelectServerError ==
    /\ pc = "select"
    /\ serverErrors # <<>>
    /\ serverErrors' = Tail(serverErrors)
    /\ pc' = "exit"
    /\ runResult' = "error: starting server"
    /\ UNCHANGED <<tracerProvider, serverPc, listening, shutdown, now>>
    /\ UNCHANGED <<resVars, cfgVars, nonAppVars, orchVars, histVars, harnessVars>>

\* App.Run, select: case sig := <-shutdown; the shutdown context is created
\* and CloseResources is called
RunSelectShutdown ==
    /\ pc = "select"
    /\ shutdown
    /\ shutdown' = FALSE
    /\ now' = 0
    /\ EnterClose
    /\ pc' = "close"
    /\ UNCHANGED <<connErr, connCalls, closeCalls>>
    /\ UNCHANGED <<tracerProvider, serverPc, listening, serverErrors, runResult>>
    /\ UNCHANGED <<resVars, cfgVars, nonAppVars, harnessVars>>

\* App.Run after CloseResources: otel.Shutdown (errors are logged), then
\* server.Shutdown(ctx); graceful tells whether it returned nil
RunServerShutdown(graceful) ==
    /\ pc = "close"
    /\ fn = "CloseResources"
    /\ fpc = "returned"
    /\ listening' = FALSE
    /\ serverPc' = "returned"
    /\ pc' = "exit"
    /\ runResult' = IF graceful THEN "nil" ELSE "could not stop server gracefully"
    /\ UNCHANGED <<tracerProvider, serverErrors, shutdown, now>>
    /\ UNCHANGED <<resVars, cfgVars, nonAppVars, orchVars, histVars, harnessVars>>

\* CloseResources cannot take a step: it waits for a Close that never returns
CloseBlocked ==
    IF variant = "concurrent"
    THEN /\ resultsChan = <<>>
         /\ idx < Len(resourcesList)
         /\ \A r \in ListedResources : gpc[r] \in {"hung", "sent"}
    ELSE fpc = "hung"

\* a second passes while CloseResources runs. Steps of the program take no
\* time of their own and a Close that honours its context is back by the
\* deadline, so time passes the deadline only while CloseResources is blocked.
Tick ==
    /\ pc = "close"
    /\ fpc # "returned"
    /\ now <= ShutdownTimeout
    /\ now < ShutdownTimeout \/ CloseBlocked
    /\ now' = now + 1
    /\ UNCHANGED <<pc, tracerProvider, serverPc, listening, serverErrors,
                   shutdown, runResult>>
    /\ UNCHANGED <<resVars, cfgVars, nonAppVars, orchVars, histVars, harnessVars>>

Next ==
    \/ MainInitResources
    \/ MainAfterInit
    \/ MainWire
    \/ \E otel \in {"off", "ok", "fail"} : RunStart(otel)
    \/ \E r \in ListedResources, dial \in BOOLEAN, up \in BOOLEAN :
          GoConnect(r, dial, up)
    \/ \E r \in ListedResources : GoSend(r)
    \/ InitCollect
    \/ InitReturn
    \/ \E r \in ListedResources, dial \in BOOLEAN, up \in BOOLEAN :
          SeqInitConnect(r, dial, up)
    \/ RunAfterInit
    \/ ServerListen
    \/ ServerError
    \/ Signal
    \/ RunSelectServerError
    \/ RunSelectShutdown
    \/ \E r \in ListedResources : \E env \in CloseEnvs(r) : GoClose(r, env)
    \/ CloseCollect
    \/ CloseReturn
    \/ \E r \in ListedResources : \E env \in CloseEnvs(r) : SeqClose(r, env)
    \/ \E graceful \in BOOLEAN : RunServerShutdown(graceful)
    \/ Tick

\* The server process: main, App.Run, the orchestrator and the resources
Spec == AppInit /\ [][Next]_vars

\* the steps of the body of InitResources / CloseResources after the
\* goroutines were started
OrchStep ==
    InitCollect \/ InitReturn \/ CloseCollect \/ CloseReturn

\* the steps of the goroutine started for resource r
GoStep(r) ==
    \/ \E dial \in BOOLEAN, up \in BOOLEAN : GoConnect(r, dial, up)
    \/ \E env \in CloseEnvs(r) : GoClose(r, env)
    \/ GoSend(r)

\* The server process where the Go scheduler lets every goroutine that can
\* take a step take one eventually
SpecLive ==
    /\ AppInit /\ [][Next]_vars
    /\ WF_vars(OrchStep)
    /\ \A r \in ListedResources : WF_vars(GoStep(r))

----------------------------------------------------------------------------
(* InitResources run twice on the same Connect outcomes *)

MaxInvocations == 2

Plans == [ListedResources -> [dial : BOOLEAN, up : BOOLEAN]]

HarnessInit ==
    /\ AppInitCommon
    /\ faulty = FALSE
    /\ variant = "concurrent"
    /\ mainVariant = "wire"
    /\ pc = "harness"
    /\ plan \in {p \in Plans : p["Redis"].dial}
    /\ invocation = 0

\* call InitResources
HarnessCall ==
    /\ pc = "harness"
    /\ fn = "none"
    /\ invocation < MaxInvocations
    /\ EnterInit("harness")
    /\ invocation' = invocation + 1
    /\ UNCHANGED <<connCalls, closeErr, closeCalls, closeSeen>>
    /\ UNCHANGED <<resVars, cfgVars, nonAppVars, procVars, plan, firstResult>>

\* InitResources has returned: keep the first execution's result
HarnessReturn ==
    /\ pc = "harness"
    /\ fn = "InitResources"
    /\ fpc = "returned"
    /\ invocation < MaxInvocations
    /\ firstResult' = IF invocation = 1 THEN initResult ELSE firstResult
    /\ fn' = "none"
    /\ UNCHANGED <<caller, fpc, gpc, gres, resultsChan, idx, initErrors,
                   successCount, failureCount, initResult>>
    /\ UNCHANGED <<resVars, cfgVars, nonAppVars, histVars, procVars, plan, invocation>>

HarnessNext ==
    \/ HarnessCall
    \/ \E r \in ListedResources : GoConnect(r, plan[r].dial, plan[r].up)
    \/ \E r \in ListedResources : GoSend(r)
    \/ InitCollect
    \/ InitReturn
    \/ HarnessReturn

\* Executions of the concurrent InitResources on fixed Connect outcomes
SpecInit == HarnessInit /\ [][HarnessNext]_vars

----------------------------------------------------------------------------

ResOnlyInit ==
    /\ AppInitCommon
    /\ faulty = FALSE
    /\ variant = "concurrent"
    /\ mainVariant = "wire"
    /\ pc = "none"
    /\ plan = [r \in ListedResources |-> [dial |-> TRUE, up |-> TRUE]]
    /\ invocation = 0

ResNext ==
    \/ \E r \in RealImpls : CallRealConnect(r)
    \/ \E r \in RealImpls : CallRealClose(r)
    \/ \E r \in RealImpls : CallRealPing(r)
    \/ \E r \in MockImpls : CallMockConnect(r)
    \/ \E r \in MockImpls : CallMockClose(r)
    \/ \E r \in MockImpls : CallMockPing(r)

\* The Resource contract exercised by arbitrary call sequences
SpecRes == ResOnlyInit /\ [][ResNext]_vars

----------------------------------------------------------------------------

RepoOnlyInit ==
    /\ AppInitCommon
    /\ faulty = FALSE
    /\ variant = "concurrent"
    /\ mainVariant = "wire"
    /\ pc = "none"
    /\ plan = [r \in ListedResources |-> [dial |-> TRUE, up |-> TRUE]]
    /\ invocation = 0

RepoNext ==
    \/ \E c \in Callers, name \in Names, email \in Emails :
          CallerSetsOwn(c, name, email) /\ UNCHANGED aboveVars
    \/ \E c \in Callers, a \in RepoAddrs, name \in Names, email \in Emails :
          CallerSetsHeld(c, a, name, email) /\ UNCHANGED aboveVars
    \/ \E c \in Callers, op \in {"GetByID", "List", "Delete"}, id \in IDs \cup {"none"} :
          CallByID(c, op, id) /\ UNCHANGED aboveVars
    \/ \E c \in Callers, op \in {"Create", "Update"}, id \in IDs, name \in Names,
          email \in Emails :
          CallWithOwn(c, op, id, name, email) /\ UNCHANGED aboveVars
    \/ \E c \in Callers, op \in {"Create", "Update"}, ptr \in RepoAddrs :
          CallWithHeld(c, op, ptr) /\ UNCHANGED aboveVars
    \/ \E c \in Callers : GetByID(c) /\ UNCHANGED aboveVars
    \/ \E c \in Callers : List(c) /\ UNCHANGED aboveVars
    \/ \E c \in Callers : Create(c) /\ UNCHANGED aboveVars
    \/ \E c \in Callers : Update(c) /\ UNCHANGED aboveVars
    \/ \E c \in Callers : Delete(c) /\ UNCHANGED aboveVars

\* Goroutines calling one MockUserRepository concurrently
SpecRepo == RepoOnlyInit /\ [][RepoNext]_vars

\* the repository's methods only: no caller writes through a pointer
SeqNext ==
    \/ \E c \in Callers, op \in {"GetByID", "List", "Delete"}, id \in IDs \cup {"none"} :
          CallByID(c, op, id) /\ UNCHANGED aboveVars
    \/ \E c \in Callers, op \in {"Create", "Update"}, id \in IDs, name \in Names,
          email \in Emails :
          CallWithOwn(c, op, id, name, email) /\ UNCHANGED aboveVars
    \/ \E c \in Callers, op \in {"Create", "Update"}, ptr \in RepoAddrs :
          CallWithHeld(c, op, ptr) /\ UNCHANGED aboveVars
    \/ \E c \in Callers : GetByID(c) /\ UNCHANGED aboveVars
    \/ \E c \in Callers : List(c) /\ UNCHANGED aboveVars
    \/ \E c \in Callers : Create(c) /\ UNCHANGED aboveVars
    \/ \E c \in Callers : Update(c) /\ UNCHANGED aboveVars
    \/ \E c \in Callers : Delete(c) /\ UNCHANGED aboveVars

\* Sequences of MockUserRepository operations
SpecSeq == RepoOnlyInit /\ [][SeqNext]_vars

----------------------------------------------------------------------------
(* Concurrent Create calls with distinct IDs, each followed by List *)

\* goroutine c calls Create with a user whose ID no other goroutine uses
ConcCreateCall(c, id, name, email) ==
    /\ creates[c] = NoCreate
    /\ \A d \in Callers : creates[d].user.ID # id
    /\ CallWithOwn(c, "Create", id, name, email)
    /\ creates' = [creates EXCEPT ![c].user = UserAt(id, name, email, clock)]
    /\ UNCHANGED <<listed, svcVars, collVars>>

\* the Create of goroutine c runs and returns
ConcCreateReturn(c) ==
    /\ Create(c)
    /\ creates' = [creates EXCEPT ![c].err = ret'.err]
    /\ UNCHANGED <<listed, svcVars, collVars>>

\* goroutine c, its Create done, calls List
ConcListCall(c) ==
    /\ creates[c].err # "none"
    /\ ~listed[c].called
    /\ CallByID(c, "List", "none")
    /\ listed' = [listed EXCEPT ![c].called = TRUE,
                                 ![c].after = \A d \in Callers : creates[d].err # "none"]
    /\ UNCHANGED <<creates, svcVars, collVars>>

\* List runs and returns its slice: one element per map entry
ConcListReturn(c) ==
    /\ List(c)
    /\ listed' = [listed EXCEPT ![c].done = TRUE,
                                 ![c].n = Cardinality({id \in IDs : users[id] # 0}),
                                 ![c].users = {heap[a] : a \in StoredPtrs}]
    /\ UNCHANGED <<creates, svcVars, collVars>>

ConcNext ==
    \/ \E c \in Callers, id \in IDs, name \in Names, email \in Emails :
          ConcCreateCall(c, id, name, email)
    \/ \E c \in Callers : ConcCreateReturn(c)
    \/ \E c \in Callers : ConcListCall(c)
    \/ \E c \in Callers : ConcListReturn(c)

\* One goroutine per user: Create, then List, on an empty repository
SpecCreates == RepoOnlyInit /\ [][ConcNext]_vars

----------------------------------------------------------------------------
(* Requests served concurrently by the handlers, and direct service calls *)

\* the ID the requests are about
RequestIDs == {"id1"}

\* the name a create request gives, or none; the name an update gives
CreateNames == {"Ann", ""}

UpdateNames == {"Ann2"}

InputEmails == Emails \cup {""}

\* the goroutine that calls the service directly, as the service tests do
DirectCallers == {"g2"}

\* the calls direct callers make: those no handler makes
DirectByID == {"GetByID", "Delete"} \X {""}

DirectWithUser ==
    {<<"Create", id, "", email>> : id \in RequestIDs, email \in InputEmails}
        \cup {<<"Update", "", name, email>> : name \in UpdateNames, email \in Emails}

SvcOnlyInit ==
    /\ AppInitCommon
    /\ faulty = TRUE
    /\ variant = "concurrent"
    /\ mainVariant = "wire"
    /\ pc = "none"
    /\ plan = [r \in ListedResources |-> [dial |-> TRUE, up |-> TRUE]]
    /\ invocation = 0

SvcNext ==
    \/ \E c \in DirectCallers, call \in DirectByID :
          ServiceCallByID(c, call[1], call[2])
    \/ \E c \in DirectCallers, call \in DirectWithUser :
          ServiceCallWithUser(c, call[1], call[2], call[3], call[4])
    \/ \E c \in Callers : ServiceCallDone(c)
    \/ \E c \in Callers, method \in Methods : HandlerEmptyID(c, method)
    \/ \E c \in Callers, method \in Methods, id \in RequestIDs,
          name \in UpdateNames \cup {"none"}, email \in InputEmails \cup {"none"} :
          HandlerCallByID(c, method, id, name, email)
    \/ \E c \in Callers, id \in RequestIDs, name \in CreateNames, email \in InputEmails :
          HandlerCreateUser(c, id, name, email)
    \/ \E c \in Callers : HandlerRespond(c)
    \/ \E c \in Callers : HandlerExistingFailed(c)
    \/ \E c \in Callers, p \in RepoAddrs : HandlerUpdateExisting(c, p)
    \/ \E c \in Callers : SvcGetByIDReturn(c)
    \/ \E c \in Callers : SvcLookupReturn(c)
    \/ \E c \in Callers : SvcMutateCall(c)
    \/ \E c \in Callers : SvcMutateReturn(c)
    \/ \E c \in Callers : SvcRepoFails(c)

\* Handlers and direct callers using one userService over one repository
SpecSvc == SvcOnlyInit /\ [][SvcNext]_vars

----------------------------------------------------------------------------
(* Create calls of userRepositoryImpl on one collection *)

MongoNext ==
    \/ \E c \in Callers, email \in MongoEmails : MongoCreateExists(c, email)
    \/ \E c \in Callers : MongoCreateInsertOne(c)
    \/ EnsureIndexes

SpecMongo == RepoOnlyInit /\ [][MongoNext]_vars

----------------------------------------------------------------------------
(* Create requests one after the other, with IDs from domain.NewUser *)

\* no stored user has the name or the email
Unused(name, email) ==
    \A k \in IDs :
        users[k] # 0 => heap[users[k]].Name # name /\ heap[users[k]].Email # email

NewUserInit ==
    /\ AppInitCommon
    /\ faulty = FALSE
    /\ variant = "concurrent"
    /\ mainVariant = "wire"
    /\ pc = "none"
    /\ plan = [r \in ListedResources |-> [dial |-> TRUE, up |-> TRUE]]
    /\ invocation = 0

NewUserNext ==
    \/ \E c \in Callers, name \in Names, email \in MongoEmails :
          /\ \A d \in Callers : HandlerIdle(d)
          /\ Unused(name, email)
          /\ HandlerCreateUser(c, GenerateID(clock), name, email)
    \/ \E c \in Callers : SvcMutateReturn(c)
    \/ \E c \in Callers : HandlerRespond(c)
    \/ ClockTick

SpecNewUser == NewUserInit /\ [][NewUserNext]_vars

----------------------------------------------------------------------------
(* BaseRepository calls on one collection *)

\* the documents inserted
InsertedDocs ==
    {[_id |-> i, name |-> "Ann", email |-> "ann@x.com",
      createdAt |-> clock, updatedAt |-> clock] : i \in StoredIDs}

\* the update arguments: a raw field map, a map with $set, a map with
\* another operator only, a struct, and a map whose $set is a struct
Updates ==
    {BsonM(KeyName :> Str("Ann2")),
     BsonM(KeySet :> BsonM(KeyName :> Str("Ann2"))),
     BsonM(KeyInc :> BsonM(KeyVisits :> Str("1"))),
     BsonD(KeyName :> Str("Ann2")),
     BsonM(KeySet :> BsonD(KeyName :> Str("Ann2")))}

BaseNext ==
    \/ \E doc \in InsertedDocs : BaseInsertOne(doc)
    \/ \E id \in IDStrings, fault \in BOOLEAN : BaseFindByID(id, fault)
    \/ \E id \in IDStrings, update \in Updates : BaseUpdateByID(id, update)
    \/ \E id \in IDStrings : MongoUpdate(id, "Ann2", "bob@x.com")
    \/ ClockTick

SpecBase == RepoOnlyInit /\ [][BaseNext]_vars

----------------------------------------------------------------------------
(* Updates of one user, in MockUserRepository and in the collection *)

\* the id of the user updated
TouchedIDs == {"id1"}

\* the update arguments: a raw field map and a struct
TouchUpdates ==
    {BsonM(KeyEmail :> Str("bob@x.com")), BsonD(KeyEmail :> Str("bob@x.com"))}

TouchNext ==
    \/ \E c \in Keeps, op \in {"Create", "Update"}, id \in TouchedIDs,
          name \in Names, email \in Emails :
          CallWithOwn(c, op, id, name, email) /\ UNCHANGED aboveVars
    \/ \E c \in Keeps, id \in TouchedIDs :
          CallByID(c, "GetByID", id) /\ UNCHANGED aboveVars
    \/ \E c \in Keeps, a \in RepoAddrs, name \in Names, email \in Emails :
          CallerSetsHeld(c, a, name, email) /\ UNCHANGED aboveVars
    \/ \E c \in Keeps, ptr \in RepoAddrs :
          CallWithHeld(c, "Update", ptr) /\ UNCHANGED aboveVars
    \/ \E c \in Keeps : GetByID(c) /\ UNCHANGED aboveVars
    \/ \E c \in Keeps : Create(c) /\ UNCHANGED aboveVars
    \/ \E c \in Keeps : Update(c) /\ UNCHANGED aboveVars
    \/ \E doc \in InsertedDocs : doc._id.v = HexLower /\ BaseInsertOne(doc)
    \/ \E update \in TouchUpdates : BaseUpdateByID(HexLower, update)
    \/ MongoUpdate(HexLower, "Ann2", "ann@x.com")
    \/ ClockTick

SpecTouch == RepoOnlyInit /\ [][TouchNext]_vars

----------------------------------------------------------------------------
(* The same calls on MockUserRepository and on userRepositoryImpl *)

\* the goroutine making the calls
TwinCallers == {"g1"}

\* a method of MockUserRepository returns and the same call is made on
\* userRepositoryImpl
TwinReturn(c) ==
    /\ cpc[c] = "locked"
    /\ GetByID(c) \/ List(c) \/ Create(c) \/ Update(c) \/ Delete(c)
    /\ MongoCall(cur[c], IF cur[c].ptr = 0 THEN NoUser ELSE heap[cur[c].ptr])
    /\ UNCHANGED <<testVars, svcVars>>

TwinNext ==
    \/ \E c \in TwinCallers, op \in {"GetByID", "List", "Delete"}, id \in IDs \cup {"none"} :
          CallByID(c, op, id) /\ UNCHANGED aboveVars
    \/ \E c \in TwinCallers, op \in {"Create", "Update"}, id \in IDs,
          name \in Names, email \in Emails :
          CallWithOwn(c, op, id, name, email) /\ UNCHANGED aboveVars
    \/ \E c \in TwinCallers : TwinReturn(c)

SpecTwin == RepoOnlyInit /\ [][TwinNext]_vars

----------------------------------------------------------------------------
(* Requests made through one httpclient.Client *)

SpecHTTP == RepoOnlyInit /\ [][HTTPNext]_vars

----------------------------------------------------------------------------
(* Claims *)

Contains(msg, seg) ==
    \E k \in 1..(Len(msg) - Len(seg) + 1) : SubSeq(msg, k, k + Len(seg) - 1) = seg

Mentions(msg, tok) ==
    \E k \in 1..Len(msg) : msg[k] = tok

InitReturned == fn = "InitResources" /\ fpc = "returned"

CloseReturned == fn = "CloseResources" /\ fpc = "returned"

\* C1: when InitResources returns, Connect of every listed resource has been
\* attempted and its outcome reported, also when another Connect failed.
C1_InitWaitsForEveryConnect ==
    InitReturned => \A r \in ListedResources : connErr[r] # "none"

\* C2: the concurrent InitResources returns an error iff some Connect
\* failed, and its message holds "<Name>: <that resource's error>" for each
\* failing resource and does not mention a resource that connected, in every
\* arrival order of the results.
C2_ErrorNamesFailingResources ==
    (variant = "concurrent" /\ InitReturned) =>
        /\ (initResult # Nil) <=> (\E r \in ListedResources : connErr[r] # NilErr)
        /\ \A r \in ListedResources :
              IF connErr[r] # NilErr
              THEN Contains(initResult, <<Name(r), ": ", connErr[r]>>)
              ELSE ~Mentions(initResult, Name(r))

\* C2 witness: DB failed, Redis connected, and InitResources has returned
C2_Witness ==
    /\ variant = "concurrent"
    /\ InitReturned
    /\ connErr["DB"] \notin {NilErr, "none"}
    /\ connErr["Redis"] = NilErr
    /\ initResult # Nil

\* C3: on the same Connect outcomes, a second execution of InitResources
\* returns the same result (nil, or the same message) as the first.
C3_SameResultEveryExecution ==
    (pc = "harness" /\ InitReturned /\ invocation > 1) => initResult = firstResult

\* The progress CloseResources can make
CloseStep ==
    \/ \E r \in ListedResources : \E env \in CloseEnvs(r) : GoClose(r, env)
    \/ \E r \in ListedResources : GoSend(r)
    \/ CloseCollect
    \/ CloseReturn
    \/ \E r \in ListedResources : \E env \in CloseEnvs(r) : SeqClose(r, env)

NoCloseHangs ==
    /\ fpc # "hung"
    /\ \A r \in ListedResources : gpc[r] # "hung"

\* C4: CloseResources calls Close once on every resource, examines every
\* outcome and returns, whichever Close calls failed: no Close is called
\* twice; at the return every resource was closed once and its outcome
\* seen; and as long as every Close call comes back, the sweep can go on.
C4_CloseSweepsEveryResource ==
    /\ \A r \in ListedResources : closeCalls[r] <= 1
    /\ CloseReturned =>
          \A r \in ListedResources :
              closeCalls[r] = 1 /\ closeErr[r] # "none" /\ Name(r) \in closeSeen
    /\ (fn = "CloseResources" /\ fpc # "returned" /\ NoCloseHangs) =>
          ENABLED CloseStep

\* C4 witness: Close of DB failed, Close of Redis was still made, and
\* CloseResources has returned
C4_Witness ==
    /\ CloseReturned
    /\ closeErr["DB"] \notin {NilErr, "none"}
    /\ closeCalls["Redis"] = 1

\* C5: the concurrent CloseResources has returned by the time the shutdown
\* context's deadline expires, also when a Close never returns.
C5_CloseBoundedByDeadline ==
    (variant = "concurrent" /\ fn = "CloseResources" /\ fpc # "returned") =>
        now <= ShutdownTimeout

\* C6: the server goroutine exists (and listens) only after the InitResources
\* called by Run returned nil with every Connect successful; when Run or main
\* fails on InitResources, the server was never started.
C6_ListenOnlyAfterInit ==
    /\ listening => serverPc = "serving"
    /\ serverPc # "none" =>
          /\ initResult = Nil
          /\ \A r \in ListedResources : connErr[r] = NilErr
    /\ (\E r \in ListedResources : connErr[r] \notin {NilErr, "none"}) =>
          /\ serverPc = "none"
          /\ ~listening
          /\ pc \in {"init", "exit"}
    /\ runResult \in {"failed to initialize resources",
                      "Failed to initialize resources"} => serverPc = "none"

\* C6 witness: the server listens while Run waits in its select
C6_Witness ==
    listening /\ pc = "select"

\* C7: Close on a resource that was never connected, or that was closed
\* before, returns nil.
C7_CloseIdempotent ==
    (last.op = "Close" /\ last.lifeBefore \in {"disconnected", "closed"}) =>
        last.err = NilErr

\* C8: Ping on a resource on which no Connect has succeeded returns
\* ErrResourceNotConnected.
C8_PingReportsNotConnected ==
    (last.op = "Ping" /\ ~last.okBefore) => last.err = ErrResourceNotConnected

InCS(c) == cpc[c] = "locked"

\* C9: while a Create, Update or Delete is inside its critical section, no
\* other repository call is inside its own.
C9_WritersExclusive ==
    \A c \in Callers :
        (InCS(c) /\ cur[c].op \in Mutations) =>
            \A d \in Callers \ {c} : ~InCS(d)

\* C9 witness: a mutation holds the write lock inside its critical section
\* on a repository that already stores a user; the other goroutine is outside
C9_Witness ==
    \E c \in Callers :
        /\ InCS(c) /\ cur[c].op \in Mutations
        /\ mutex.writer
        /\ StoredPtrs # {}
        /\ \A d \in Callers \ {c} : cpc[d] = "idle"

\* C10: whatever callers do with the Users they got from GetByID or List,
\* the User stored under an id (what GetByID returns next) has the fields
\* last written by a successful Create or Update.
C10_ReadersCannotChangeStore ==
    \A id \in IDs : users[id] # 0 => heap[users[id]] = written[id]

\* C11: once Create(u) or Update(u) has returned nil, whatever the caller
\* then assigns to the fields of u, the repository holds under u.ID a
\* different object that still has the fields the call wrote.
C11_InputCopiedOnWrite ==
    (ret.op \in {"Create", "Update"} /\ ret.err = NilErr) =>
        /\ users[ret.id] # 0
        /\ users[ret.id] # ret.ptr
        /\ heap[users[ret.id]] = written[ret.id]

\* C11 witness: Create(u) or Update(u) has returned nil and the caller has
\* since changed a field of u
C11_Witness ==
    /\ ret.op \in {"Create", "Update"}
    /\ ret.err = NilErr
    /\ heap[ret.ptr] # NoUser
    /\ heap[ret.ptr] # written[ret.id]

\* C12: in every interleaving of the concurrent Create calls with pairwise
\* distinct IDs, no Create returns an error, and a List called after all of
\* them returned yields exactly the users created: one element per user.
C12_ConcurrentCreatesAllListed ==
    /\ \A c \in Callers : creates[c].err \in {"none", NilErr}
    /\ \A c \in Callers :
          (listed[c].done /\ listed[c].after) =>
              /\ listed[c].users = {creates[d].user : d \in Callers}
              /\ listed[c].n = Cardinality(Callers)

\* C12 witness: every goroutine's Create has returned, and a List called
\* after that has returned one user per goroutine
C12_Witness ==
    \E c \in Callers :
        /\ listed[c].done /\ listed[c].after
        /\ Cardinality(listed[c].users) = Cardinality(Callers)

\* the step in which the call of op that goroutine c is making returns
Returns(c, op) ==
    cpc[c] = "locked" /\ cur[c].op = op /\ cpc'[c] = "idle"

\* what the repository stores: per id, the fields of the stored User
StoredUsers ==
    [id \in IDs |-> IF users[id] = 0 THEN NoUser ELSE heap[users[id]]]

\* C13: Create of an ID that is present returns ErrUserExists, Update and
\* Delete of an ID that is not present return ErrUserNotFound, and a
\* mutation that returns an error leaves the map and every stored field as
\* they were.
C13_FailedMutationChangesNothing ==
    [][\A c \in Callers :
          /\ (Returns(c, "Create") /\ users[cur[c].id] # 0) => ret'.err = ErrUserExists
          /\ (Returns(c, "Update") /\ users[cur[c].id] = 0) => ret'.err = ErrUserNotFound
          /\ (Returns(c, "Delete") /\ users[cur[c].id] = 0) => ret'.err = ErrUserNotFound
          /\ \A op \in Mutations :
                (Returns(c, op) /\ ret'.err # NilErr) =>
                    /\ users' = users
                    /\ StoredUsers' = StoredUsers
                    /\ written' = written]_vars

\* C13 witness: an Update of an absent ID has returned ErrUserNotFound while
\* the repository stores another user
C13_Witness ==
    /\ ret.op = "Update"
    /\ ret.err = ErrUserNotFound
    /\ users[ret.id] = 0
    /\ StoredPtrs # {}

\* C14: a Delete that returns nil removes the entry; while the entry is
\* absent the repository's GetByID yields nil, which userService.GetByID
\* turns into its ErrUserNotFound, and the repository's Delete returns
\* ErrUserNotFound; only a Create brings the entry back.
C14_DeleteIsTerminal ==
    [][\A c \in Callers :
          /\ (Returns(c, "Delete") /\ ret'.err = NilErr) => users'[cur[c].id] = 0
          /\ (Returns(c, "Delete") /\ users[cur[c].id] = 0 /\ ret'.err # ErrRepoFailure) =>
                ret'.err = ErrUserNotFound
          /\ (Returns(c, "GetByID") /\ users[cur[c].id] = 0 /\ ret'.err # ErrRepoFailure) =>
                /\ svc'[c].lookup = "nil"
                /\ svc'[c].pc = "returned"
                /\ svc'[c].err = ServiceErrUserNotFound
          /\ \A id \in IDs :
                (users[id] = 0 /\ users'[id] # 0) => \E d \in Callers : Returns(d, "Create")]_vars

\* C14 witness: after a Delete that succeeded, a second Delete of the same,
\* now absent, id has returned the repository's not-found error
C14_Witness ==
    /\ ret.op = "Delete"
    /\ ret.err = ErrUserNotFound
    /\ users[ret.id] = 0

\* C15: after any sequence of repository operations, an id has an entry
\* iff its most recent successful mutation was a Create or Update, the entry
\* has the fields that mutation was given, GetByID returns that entry (nil
\* if there is none), and List collects exactly the entries GetByID finds.
C15_GetByIDReturnsLastWritten ==
    /\ \A id \in IDs :
          /\ users[id] = 0 <=> written[id] = NoUser
          /\ users[id] # 0 => heap[users[id]] = written[id]
    /\ {heap[p] : p \in StoredPtrs} = {written[id] : id \in IDs} \ {NoUser}
    /\ Cardinality(StoredPtrs) = Cardinality({id \in IDs : written[id] # NoUser})
    /\ \A c \in Keeps :
          (ret.by = c /\ ret.op = "GetByID" /\ cpc[c] = "idle") =>
              /\ held[c] = {} <=> written[ret.id] = NoUser
              /\ \A p \in held[c] : heap[p] = written[ret.id]

\* C15 witness: GetByID has returned a stored user, which has the fields
\* last written under its id
C15_Witness ==
    \E c \in Keeps :
        /\ ret.by = c /\ ret.op = "GetByID" /\ cpc[c] = "idle"
        /\ \E p \in held[c] : heap[p].Name = "Ann2" /\ heap[p] = written[ret.id]

\* the service call of goroutine c has returned
SvcDone(c) == svc[c].pc = "returned"

\* C16: a userService call with an empty ID (GetByID, Update, Delete) or
\* with an empty Name or Email (Create) returns ErrInvalidUser and has made
\* no repository call.
C16_InvalidInputRejectedFirst ==
    \A c \in Callers :
        LET s == svc[c] IN
        /\ (s.op \in {"GetByID", "Update", "Delete"} /\ s.id = "") =>
              /\ s.pc = "returned" /\ s.err = ErrInvalidUser /\ s.calls = <<>>
        /\ (s.op = "Create" /\ s.pc # "returned") =>
              heap[s.ptr].Name # "" /\ heap[s.ptr].Email # ""
        /\ (s.op = "Create" /\ s.pc = "returned"
               /\ (heap[s.ptr].Name = "" \/ heap[s.ptr].Email = "")) =>
              /\ s.err = ErrInvalidUser /\ s.calls = <<>>
        /\ (SvcDone(c) /\ s.err = ErrInvalidUser) => s.calls = <<>> /\ cpc[c] = "idle"

\* C16 witness: Create with an empty Email, and a call with an empty ID, have
\* returned ErrInvalidUser
C16_Witness ==
    \E c \in Callers, d \in Callers :
        /\ svc[c].op = "Create" /\ SvcDone(c) /\ heap[svc[c].ptr].Email = ""
        /\ svc[c].err = ErrInvalidUser
        /\ svc[d].op \in {"Update", "Delete"} /\ SvcDone(d) /\ svc[d].id = ""

\* C17: userService.Update and Delete call GetByID first and the mutation
\* only after GetByID returned a user; after a nil user they return the
\* service's ErrUserNotFound, after a lookup error that error, both without
\* calling the mutation; the mutation's own error is returned as it is.
C17_MutationOnlyAfterLookup ==
    \A c \in Callers :
        LET s == svc[c] IN
        (s.op \in {"Update", "Delete"} /\ s.calls # <<>>) =>
            /\ s.calls \in {<<"GetByID">>, <<"GetByID", s.op>>}
            /\ Len(s.calls) = 2 => s.lookup = "user"
            /\ (SvcDone(c) /\ s.lookup = "nil") =>
                  s.err = ServiceErrUserNotFound /\ Len(s.calls) = 1
            /\ (SvcDone(c) /\ s.lookup = "error") =>
                  s.err = ErrRepoFailure /\ Len(s.calls) = 1
            /\ (SvcDone(c) /\ Len(s.calls) = 2 /\ ret.by = c) =>
                  ret.op = s.op /\ s.err = ret.err

\* C17 witness: a Delete whose lookup found the user has called the
\* repository's Delete and returned the error that came back
C17_Witness ==
    \E c \in Callers :
        /\ svc[c].op = "Delete" /\ SvcDone(c)
        /\ svc[c].calls = <<"GetByID", "Delete">>
        /\ ret.by = c /\ ret.err = ErrUserNotFound /\ svc[c].err = ErrUserNotFound

\* the handler of goroutine c answers in this step a request whose service
\* call returned err
Answers(c, err) ==
    /\ hnd[c].pc \in {"get", "existing", "create", "update", "delete"}
    /\ svc[c].pc = "returned"
    /\ svc[c].err = err
    /\ hnd'[c].pc = "done"

\* C18: a DELETE or PUT whose service call failed because the user does not
\* exist, whether the service's existence check found it missing
\* (service.ErrUserNotFound) or the repository's Delete / Update did after a
\* concurrent Delete (repository.ErrUserNotFound), is answered 404.
C18_MissingUserAnswered404 ==
    [][\A c \in Callers :
          (/\ hnd[c].method \in {"DELETE", "PUT"}
           /\ \/ Answers(c, ServiceErrUserNotFound)
              \/ Answers(c, ErrUserNotFound))
          => hnd'[c].status = StatusNotFound]_vars

\* C19: a request for which the service returned ErrInvalidUser is answered
\* 400.
C19_InvalidUserAnswered400 ==
    [][\A c \in Callers :
          Answers(c, ErrInvalidUser) => hnd'[c].status = StatusBadRequest]_vars

\* the Create call of goroutine c with email has returned err
CreateReturned(c, email, err) ==
    /\ creating[c].pc = "returned"
    /\ creating[c].email = email
    /\ creating[c].err = err

\* C20: however userRepositoryImpl.Create calls with one email interleave,
\* the collection holds at most one document with that email and of two
\* such calls at most one returns nil.
C20_OneDocumentPerEmail ==
    \A e \in MongoEmails :
        /\ Count(e) <= 1
        /\ \A c \in Callers : \A d \in Callers \ {c} :
              ~(CreateReturned(c, e, NilErr) /\ CreateReturned(d, e, NilErr))

\* C27: every entry of MockUserRepository.users stored under key k is a
\* User whose ID is k, whatever operations have run and whatever the callers
\* have assigned to the Name and Email of the users they were given.
C27_StoredIDIsKey ==
    \A k \in IDs : users[k] # 0 => heap[users[k]].ID = k

\* C27 witness: Update has replaced the entry of a user by the object
\* GetByID had returned and the caller had changed
C27_Witness ==
    /\ ret.op = "Update" /\ ret.err = NilErr
    /\ ret.ptr \in RepoAddrs
    /\ users[ret.id] # 0
    /\ heap[users[ret.id]].Name = "Ann2"

\* the concurrent InitResources / CloseResources is being executed
InOrchestrator == variant = "concurrent" /\ fn \in {"InitResources", "CloseResources"}

\* a goroutine that has its result finds room in resultsChan, and when the
\* function has returned every goroutine has sent and every result was
\* received
OneResultPerResource ==
    InOrchestrator =>
        /\ \A r \in ListedResources :
              gpc[r] = "called" => ENABLED GoSend(r)
        /\ fpc = "returned" =>
              /\ idx = Len(resourcesList)
              /\ resultsChan = <<>>
              /\ \A r \in ListedResources : gpc[r] = "sent"

\* C25: the concurrent InitResources terminates, and so does CloseResources
\* provided no Close hangs; each has then received exactly one result per
\* resource, and no goroutine ever finds resultsChan full, so none is left
\* blocked after the return.
C25_OrchestratorTerminates ==
    /\ []OneResultPerResource
    /\ (InOrchestrator /\ fn = "InitResources") ~> (fpc = "returned")
    /\ ([](\A r \in ListedResources : gpc[r] # "hung")) =>
          ((InOrchestrator /\ fn = "CloseResources") ~> (fpc = "returned"))

\* C25 witness: the concurrent CloseResources has returned after both
\* goroutines sent their results
C25_Witness ==
    /\ InOrchestrator /\ fn = "CloseResources" /\ fpc = "returned"
    /\ \A r \in ListedResources : gpc[r] = "sent"

\* C28: Close is called on a resource only when the HTTP server has stopped
\* serving (server.Shutdown has completed).
C28_CloseAfterServerShutdown ==
    (fn = "CloseResources" /\ \E r \in ListedResources : closeCalls[r] > 0) =>
        (serverPc = "returned" /\ ~listening)

\* C29: over one process run Connect is called at most once on each resource.
C29_ConnectAtMostOnce ==
    \A r \in ListedResources : connCalls[r] <= 1

\* C30: a create request whose name and email no stored user has gets an ID
\* of its own from domain.NewUser: userService.Create returns nil and the
\* user is stored under that ID.
C30_NewUsersGetDistinctIDs ==
    \A c \in Callers :
        (hnd[c].pc = "create" /\ svc[c].pc = "returned") =>
            /\ svc[c].err = NilErr
            /\ users[svc[c].id] # 0
            /\ heap[users[svc[c].id]].Name = hnd[c].name

\* the id string matches the _id of document d: as an ObjectID if it is the
\* hex form of one, else as the same string
IDMatches(id, d) ==
    IF Len(id) = ObjectIDHexLen /\ \A i \in 1..Len(id) : id[i] \in HexDigits
    THEN d._id.t = "ObjectID" /\ \A i \in 1..Len(id) : Lower(id[i]) = d._id.v[i]
    ELSE d._id.t = "string" /\ d._id.v = id

\* C22: without a storage fault FindByID returns ErrNotFound and no document
\* for an id that matches no document, whether the id parses as an ObjectID
\* or not, and the document with that _id otherwise; an id that does not
\* parse matches the documents whose _id is the same string.
C22_FindByIDNotFound ==
    (base.op = "FindByID" /\ ~base.fault) =>
        IF \E d \in coll : IDMatches(base.id, d)
        THEN base.err = NilErr /\ base.doc \in coll /\ IDMatches(base.id, base.doc)
        ELSE base.err = ErrNotFound /\ base.doc = NoDoc

\* C22 witness: FindByID has returned ErrNotFound for an id that does not
\* parse, in a collection that holds an ObjectID with nearly the same
\* characters, and for a hex id whose characters are stored as a string
C22_Witness ==
    /\ base.op = "FindByID" /\ ~base.fault /\ base.err = ErrNotFound
    /\ \/ base.id = NotHex /\ \E d \in coll : d._id = [t |-> "ObjectID", v |-> HexLower]
       \/ base.id = HexUpper /\ coll = {d \in coll : d._id.t = "string"} /\ coll # {}

\* C26: the update UpdateByID sends to storage sets updatedAt to the time of
\* the call, whatever form the update argument has.
C26_UpdateAlwaysStamped ==
    base.op = "UpdateByID" =>
        /\ KeySet \in DOMAIN base.sent
        /\ KeyUpdatedAt \in DOMAIN base.sent[KeySet].m
        /\ base.sent[KeySet].m[KeyUpdatedAt] = Time(base.at)

\* the fields an update argument names
Named(update) ==
    IF update.t = "M" /\ hasOperators(update.m)
    THEN IF KeySet \in DOMAIN update.m THEN DOMAIN update.m[KeySet].m ELSE {}
    ELSE DOMAIN update.m

\* a successful MockUserRepository.Update leaves the ID and the creation
\* time of the stored user as they were and sets its update time to now
MockUpdateKeepsFields ==
    \A c \in Callers :
        (cpc[c] = "locked" /\ cur[c].op = "Update" /\ ret'.by = c /\ ret'.err = NilErr) =>
            LET old == heap[users[cur[c].id]]
                new == heap'[users'[cur[c].id]]
            IN /\ new.ID = old.ID
               /\ new.CreatedAt = old.CreatedAt
               /\ new.UpdatedAt = clock

\* a successful UpdateByID / userRepositoryImpl.Update leaves the _id, the
\* creation time and the fields the update does not name as they were and
\* sets the update time to now
MongoUpdateKeepsFields ==
    (base'.op \in {"Update", "UpdateByID"} /\ base'.err = NilErr
       /\ <<coll, base>>' # <<coll, base>>) =>
        \A d \in Matching(IDFilter(base'.id)) :
            \E n \in coll' :
                /\ n._id = d._id
                /\ n.createdAt = d.createdAt
                /\ n.updatedAt = clock
                /\ KeyName \notin Named(base'.update) => n.name = d.name
                /\ KeyEmail \notin Named(base'.update) => n.email = d.email

\* C21: an update changes only the fields it names, keeps the identifier
\* and the creation timestamp and sets the update timestamp to the current
\* time, in BaseRepository.UpdateByID, userRepositoryImpl.Update and
\* MockUserRepository.Update.
C21_UpdateKeepsOtherFields ==
    [][MockUpdateKeepsFields /\ MongoUpdateKeepsFields]_vars

\* the outcome class of a call that returned err (found: GetByID returned a
\* user)
OutcomeClass(op, err, found) ==
    IF err = ErrUserNotFound \/ (op = "GetByID" /\ err = NilErr /\ ~found)
    THEN "not-found"
    ELSE IF err = ErrUserExists THEN "already-exists"
    ELSE IF err = NilErr THEN "success"
    ELSE "error"

\* C24: for the same sequence of calls MockUserRepository and
\* userRepositoryImpl return the same outcome class for each call.
C24_MockAndMongoAgree ==
    \A c \in TwinCallers :
        (ret.by = c /\ base.op = ret.op) =>
            OutcomeClass(ret.op, ret.err, held[c] # {})
                = OutcomeClass(base.op, base.err, base.doc # NoDoc)

\* C23: one Client.Request attempts the HTTP call at most MaxRetries+1 times
\* with retries enabled and exactly once with retries disabled, and makes
\* no attempt after a response whose status ShouldRetry does not select.
C23_AttemptsBounded ==
    \A q \in Requests :
        /\ RetryEnabled => requests[q].attempt <= MaxRetries + 1
        /\ (retryBackOff.kind = "stop" /\ requests[q].pc = "returned")
              => requests[q].attempt = 1
        /\ (requests[q].attempt > 0 /\ ~ShouldRetry(requests[q].statusCode))
              => requests[q].pc = "returned"

====
